---- MODULE Spec2Model ----
(***************************************************************************)
(* Consultation wizard of the research backend: the relational store       *)
(* (models/ui.py), the repository (models/repositories.py), the report     *)
(* helpers (app/reports.py) and the step handlers (app/main.py).           *)
(*                                                                         *)
(* Every request runs in a session of its own (get_db); a handler is one   *)
(* action.  Inside a handler the session is a working copy `work` of the   *)
(* committed store `committed` plus the rows added and not yet flushed;    *)
(* db.commit() flushes and makes the working copy the committed store, a   *)
(* failed flush or an exception leaving the handler rolls back to it.      *)
(***************************************************************************)
EXTENDS Integers, Sequences, FiniteSets, Bags, TLC

\* ---------------------------------------------------------------- values
\* Python None, for scalar columns and arguments.
None == "None"
\* SQL NULL in an integer key column (also the id of a row not yet flushed).
NullId == 0
\* None where a mapped object (a row) is expected.
NoRow == [id |-> NullId]
\* JSON columns: None, or a list of documents.
JNone == [tag |-> "None"]
JList(items) == [tag |-> "list", items |-> items]

\* ---------------------------------------------------------------- bounds
\* Patient and consultation rows ever inserted in one run.
MaxPatients == 2
MaxConsultations == 2

UUIDs == {"u1", "u2"}
DiagNames == {"flu", "cold"}
ExamNames == {"xray", "blood"}

\* ------------------------------------------------------------ the schema
PatientColumns == {"id", "uuid", "age", "gender"}

ConsultationColumns ==
    {"id", "patient_id", "timestamp", "lang", "weight_kg", "height_cm", "diet",
     "sleep_hours", "physical_activity", "mental_exercises", "symptoms",
     "mental_health", "previous_tests", "wearable_data", "ai_diag_raw",
     "ai_exam_raw"}

\* The JSON columns of Consultation.
JsonColumns == {"previous_tests", "wearable_data"}

DiagnosisRatingColumns == {"accuracy", "relevance", "usefulness", "coherence", "comments"}
ExamRatingColumns == {"accuracy", "relevance", "usefulness", "coherence", "safety", "comments"}

\* A Consultation(patient_id=...) with every other column at its default.
NewConsultation(pid) ==
    [id |-> NullId, patient_id |-> pid, timestamp |-> None, lang |-> None,
     weight_kg |-> None, height_cm |-> None, diet |-> None, sleep_hours |-> None,
     physical_activity |-> None, mental_exercises |-> None, symptoms |-> None,
     mental_health |-> None, previous_tests |-> JNone, wearable_data |-> JNone,
     ai_diag_raw |-> None, ai_exam_raw |-> None]

\* ConsultationDiagnosis(consultation_id, diagnosis_id, **eval_data): the
\* rating columns named by eval_data, the others NULL.
ConsultationDiagnosis(cid, did, eval_data) ==
    [consultation_id |-> cid, diagnosis_id |-> did,
     accuracy |-> IF "accuracy" \in DOMAIN eval_data THEN eval_data["accuracy"] ELSE None,
     relevance |-> IF "relevance" \in DOMAIN eval_data THEN eval_data["relevance"] ELSE None,
     usefulness |-> IF "usefulness" \in DOMAIN eval_data THEN eval_data["usefulness"] ELSE None,
     coherence |-> IF "coherence" \in DOMAIN eval_data THEN eval_data["coherence"] ELSE None,
     comments |-> IF "comments" \in DOMAIN eval_data THEN eval_data["comments"] ELSE None]

ConsultationExam(cid, eid, eval_data) ==
    [consultation_id |-> cid, exam_id |-> eid,
     accuracy |-> IF "accuracy" \in DOMAIN eval_data THEN eval_data["accuracy"] ELSE None,
     relevance |-> IF "relevance" \in DOMAIN eval_data THEN eval_data["relevance"] ELSE None,
     usefulness |-> IF "usefulness" \in DOMAIN eval_data THEN eval_data["usefulness"] ELSE None,
     coherence |-> IF "coherence" \in DOMAIN eval_data THEN eval_data["coherence"] ELSE None,
     safety |-> IF "safety" \in DOMAIN eval_data THEN eval_data["safety"] ELSE None,
     comments |-> IF "comments" \in DOMAIN eval_data THEN eval_data["comments"] ELSE None]

\* The empty database: the six tables.  The association tables are bags of
\* rows, so that what keeps a (consultation, diagnosis) pair single is the
\* primary key check of the flush and not the representation.
EmptyStore ==
    [patients |-> {}, consultations |-> {}, diagnoses |-> {}, exams |-> {},
     consultation_diagnoses |-> EmptyBag, consultation_exams |-> EmptyBag]

\* ---------------------------------------------------------------- state
VARIABLES
    db,        \* the committed store
    last,      \* the last step query: [op, uuid, status], status the step answered
    sessions   \* the requests in flight, each with its own get_db() session

vars == <<db, last, sessions>>

\* No request is in flight between two steps of the single-user flows.
NoSessions == <<>>

\* ------------------------------------------------------------- utilities
Max(S) == CHOOSE x \in S : \A y \in S : y <= x

\* The key SQLite gives an inserted row: one more than the largest in use.
NextId(rows) == IF rows = {} THEN 1 ELSE Max({r.id : r \in rows}) + 1

\* The rows of set S as a sequence in key order, the order SQLite returns
\* the rows of a query without ORDER BY in.
RECURSIVE SortedById(_)
SortedById(S) ==
    IF S = {} THEN <<>>
    ELSE LET r == CHOOSE x \in S : \A y \in S : x.id <= y.id
         IN <<r>> \o SortedById(S \ {r})

SeqToSet(s) == {s[i] : i \in 1..Len(s)}

\* ------------------------------------------------------------- queries
\* db.query(Patient).filter(Patient.uuid == str(patient_uuid)).first()
get_patient_by_uuid(store, patient_uuid) ==
    LET found == SortedById({p \in store.patients : p.uuid = patient_uuid})
    IN IF found = <<>> THEN NoRow ELSE found[1]

\* patient.consultations: the rows whose patient_id is the patient's key.
consultations_of(store, patient) ==
    SortedById({c \in store.consultations : c.patient_id = patient.id})

\* consultation.selected_diagnoses / selected_exams: the association rows.
selected_diagnoses_of(store, cid) ==
    {a \in BagToSet(store.consultation_diagnoses) : a.consultation_id = cid}

selected_exams_of(store, cid) ==
    {a \in BagToSet(store.consultation_exams) : a.consultation_id = cid}

\* ------------------------------------------------------ step state machine
StepNames ==
    {"demographics", "lifestyle", "symptoms", "mental", "tests", "wearable",
     "diagnosis", "exams", "complete"}

\* The steps without the wearable one.
_get_next_step_without_wearable(store, patient) ==
    LET cs == consultations_of(store, patient)
        consultation == cs[Len(cs)]
    IN IF cs = <<>> THEN "demographics"
       ELSE IF patient.age = None THEN "demographics"
       ELSE IF consultation.diet = None THEN "lifestyle"
       ELSE IF consultation.symptoms = None THEN "symptoms"
       ELSE IF consultation.mental_health = None THEN "mental"
       ELSE IF consultation.previous_tests = JNone THEN "tests"
       ELSE IF selected_diagnoses_of(store, consultation.id) = {} THEN "diagnosis"
       ELSE IF selected_exams_of(store, consultation.id) = {} THEN "exams"
       ELSE "complete"

\* The checks in another order: mental health before symptoms.
_get_next_step_reordered(store, patient) ==
    LET cs == consultations_of(store, patient)
        consultation == cs[Len(cs)]
    IN IF cs = <<>> THEN "demographics"
       ELSE IF patient.age = None THEN "demographics"
       ELSE IF consultation.diet = None THEN "lifestyle"
       ELSE IF consultation.mental_health = None THEN "mental"
       ELSE IF consultation.symptoms = None THEN "symptoms"
       ELSE IF consultation.previous_tests = JNone THEN "tests"
       ELSE IF consultation.wearable_data = JNone THEN "wearable"
       ELSE IF selected_diagnoses_of(store, consultation.id) = {} THEN "diagnosis"
       ELSE IF selected_exams_of(store, consultation.id) = {} THEN "exams"
       ELSE "complete"

\* `if not patient.age` for `if patient.age is None`: an age of 0 is absent.
_get_next_step_falsy_age(store, patient) ==
    LET cs == consultations_of(store, patient)
        consultation == cs[Len(cs)]
    IN IF cs = <<>> THEN "demographics"
       ELSE IF patient.age \in {None, "0"} THEN "demographics"
       ELSE IF consultation.diet = None THEN "lifestyle"
       ELSE IF consultation.symptoms = None THEN "symptoms"
       ELSE IF consultation.mental_health = None THEN "mental"
       ELSE IF consultation.previous_tests = JNone THEN "tests"
       ELSE IF consultation.wearable_data = JNone THEN "wearable"
       ELSE IF selected_diagnoses_of(store, consultation.id) = {} THEN "diagnosis"
       ELSE IF selected_exams_of(store, consultation.id) = {} THEN "exams"
       ELSE "complete"

\* `if not consultation.previous_tests` for `is None`: [] is absent.
_get_next_step_falsy_lists(store, patient) ==
    LET cs == consultations_of(store, patient)
        consultation == cs[Len(cs)]
    IN IF cs = <<>> THEN "demographics"
       ELSE IF patient.age = None THEN "demographics"
       ELSE IF consultation.diet = None THEN "lifestyle"
       ELSE IF consultation.symptoms = None THEN "symptoms"
       ELSE IF consultation.mental_health = None THEN "mental"
       ELSE IF consultation.previous_tests \in {JNone, JList(<<>>)} THEN "tests"
       ELSE IF consultation.wearable_data \in {JNone, JList(<<>>)} THEN "wearable"
       ELSE IF selected_diagnoses_of(store, consultation.id) = {} THEN "diagnosis"
       ELSE IF selected_exams_of(store, consultation.id) = {} THEN "exams"
       ELSE "complete"

_get_next_step(store, patient) ==
    LET cs == consultations_of(store, patient)
        consultation == cs[Len(cs)]
    IN IF cs = <<>> THEN "demographics"
       ELSE IF patient.age = None THEN "demographics"
       ELSE IF consultation.diet = None THEN "lifestyle"
       ELSE IF consultation.symptoms = None THEN "symptoms"
       ELSE IF consultation.mental_health = None THEN "mental"
       ELSE IF consultation.previous_tests = JNone THEN "tests"
       ELSE IF consultation.wearable_data = JNone THEN "wearable"
       ELSE IF selected_diagnoses_of(store, consultation.id) = {} THEN "diagnosis"
       ELSE IF selected_exams_of(store, consultation.id) = {} THEN "exams"
       ELSE "complete"

\* ---------------------------------------------------------- the session
\* SessionLocal(): a session on the committed store.  added_diagnoses and
\* added_exams are the association objects passed to db.add and not yet
\* flushed (autoflush is off); cid is consultation.id of the consultation
\* object the request works on, NullId while that object is unflushed.
Session(store) ==
    [committed |-> store, work |-> store, added_diagnoses |-> <<>>,
     added_exams |-> <<>>, cid |-> NullId, error |-> None]

RECURSIVE BagOfSeq(_)
BagOfSeq(rows) ==
    IF rows = <<>> THEN EmptyBag
    ELSE SetToBag({Head(rows)}) (+) BagOfSeq(Tail(rows))

\* consultation_diagnoses keyed by a surrogate id instead: the two columns NOT
\* NULL, and nothing against two rows of one pair.
DiagnosisKeyOk_surrogate_key(table) ==
    \A r \in BagToSet(table) :
        /\ r.consultation_id # NullId
        /\ r.diagnosis_id # NullId

\* The composite primary key of consultation_diagnoses: both columns NOT
\* NULL and no two rows with the same (consultation_id, diagnosis_id).
DiagnosisKeyOk(table) ==
    \A r \in BagToSet(table) :
        /\ r.consultation_id # NullId
        /\ r.diagnosis_id # NullId
        /\ CopiesIn(r, table) = 1
        /\ \A q \in BagToSet(table) :
               (q.consultation_id = r.consultation_id /\ q.diagnosis_id = r.diagnosis_id)
                   => q = r

\* The composite primary key of consultation_exams.
ExamKeyOk(table) ==
    \A r \in BagToSet(table) :
        /\ r.consultation_id # NullId
        /\ r.exam_id # NullId
        /\ CopiesIn(r, table) = 1
        /\ \A q \in BagToSet(table) :
               (q.consultation_id = r.consultation_id /\ q.exam_id = r.exam_id)
                   => q = r

\* patients.uuid is UNIQUE.
PatientUuidOk(patients) ==
    \A p, q \in patients : p.uuid = q.uuid => p = q

\* The flush of db.commit(): the unflushed Consultation gets its key, the
\* added association rows are inserted as they were built, and the
\* constraints of the schema decide whether the flush succeeds.
Flush(s) ==
    LET nid == NextId({c \in s.work.consultations : c.id # NullId})
        fresh == {c \in s.work.consultations : c.id = NullId}
        cons == {c \in s.work.consultations : c.id # NullId}
                    \cup {[c EXCEPT !.id = nid] : c \in fresh}
        cd == s.work.consultation_diagnoses (+) BagOfSeq(s.added_diagnoses)
        ce == s.work.consultation_exams (+) BagOfSeq(s.added_exams)
        ok == DiagnosisKeyOk(cd) /\ ExamKeyOk(ce) /\ PatientUuidOk(s.work.patients)
    IN IF ok
       THEN [s EXCEPT !.work = [s.work EXCEPT !.consultations = cons,
                                              !.consultation_diagnoses = cd,
                                              !.consultation_exams = ce],
                      !.added_diagnoses = <<>>,
                      !.added_exams = <<>>,
                      !.cid = IF s.cid = NullId /\ fresh # {} THEN nid ELSE s.cid]
       ELSE [s EXCEPT !.error = "IntegrityError"]

\* db.rollback(), also what db.close() does to a session left uncommitted.
Rollback(s) ==
    [s EXCEPT !.work = s.committed, !.added_diagnoses = <<>>, !.added_exams = <<>>]

\* db.commit(): flush, then make the transaction durable; a failed flush
\* rolls the transaction back and raises.
Committed(flushed) ==
    IF flushed.error # None THEN Rollback(flushed)
    ELSE [flushed EXCEPT !.committed = flushed.work]

Commit(s) == Committed(Flush(s))

\* What a request leaves behind when its session is closed.
Close(s) == s.committed

\* ------------------------------------------------------------ repository
RowByName(rows, name) ==
    LET found == SortedById({r \in rows : r.name = name})
    IN IF found = <<>> THEN NoRow ELSE found[1]

\* A get_or_create_diagnosis that adds a row without looking for one first.
get_or_create_diagnosis_always_creates(s, diagnosis_name) ==
    Commit([s EXCEPT !.work.diagnoses =
               @ \cup {[id |-> NextId(s.work.diagnoses), name |-> diagnosis_name]}])

\* Returns the session; the row is RowByName(session.work.diagnoses, name).
get_or_create_diagnosis(s, diagnosis_name) ==
    IF RowByName(s.work.diagnoses, diagnosis_name) # NoRow THEN s
    ELSE Commit([s EXCEPT !.work.diagnoses =
                    @ \cup {[id |-> NextId(s.work.diagnoses), name |-> diagnosis_name]}])

get_or_create_exam(s, exam_name) ==
    IF RowByName(s.work.exams, exam_name) # NoRow THEN s
    ELSE Commit([s EXCEPT !.work.exams =
                    @ \cup {[id |-> NextId(s.work.exams), name |-> exam_name]}])

\* dict.get(key, default) on a mapping.
Get(mapping, key, default) == IF key \in DOMAIN mapping THEN mapping[key] ELSE default

\* The empty mapping {}.
EmptyMap == <<>>

\* datetime.fromisoformat on the strings the model submits: a datetime is
\* written as its isoformat() text, a date without time parses to midnight,
\* anything else raises ValueError.
IsoDateTimes == {"2023-10-26T10:00:00", "2023-10-26T00:00:00", "2024-01-01T00:00:00"}
fromisoformat(text) ==
    IF text \in IsoDateTimes THEN text
    ELSE IF text = "2023-10-26" THEN "2023-10-26T00:00:00"
    ELSE "ValueError"

\* The fields patched and not replaced: a None in the mapping keeps the
\* old value.
SetConsultationFields_keeps_on_none(consultation, consultation_data) ==
    [k \in DOMAIN consultation |->
        IF k \in DOMAIN consultation_data /\ consultation_data[k] # None
        THEN consultation_data[k] ELSE consultation[k]]

\* for key, value in consultation_data.items():
\*     if hasattr(consultation, key): setattr(consultation, key, value)
SetConsultationFields(consultation, consultation_data) ==
    [k \in DOMAIN consultation |->
        IF k \in DOMAIN consultation_data THEN consultation_data[k] ELSE consultation[k]]

\* An update that does not clear the old rows.
DeleteAssociations_keeps_rows(table, cid) == table

\* Query(...).filter(consultation_id == cid).delete(): runs at once, on the
\* flushed rows.
DeleteAssociations(table, cid) ==
    LET keep == {r \in BagToSet(table) : r.consultation_id # cid}
    IN [r \in keep |-> CopiesIn(r, table)]

\* eval_data that takes a flat entry only: nothing is read from an entry
\* wrapped in 'ratings'.
EvalDataOf_flat_only(rating_obj) ==
    IF DOMAIN rating_obj = {} THEN EmptyMap
    ELSE IF "ratings" \in DOMAIN rating_obj THEN EmptyMap
    ELSE rating_obj

\* eval_data read from the 'ratings' sub-mapping whether it is there or not.
EvalDataOf_ratings_only(rating_obj) ==
    IF DOMAIN rating_obj = {} THEN EmptyMap
    ELSE Get(rating_obj, "ratings", EmptyMap)

\* eval_data of one selected name: the entry's 'ratings' sub-mapping when
\* the entry has that key, the entry itself otherwise, {} without an entry.
EvalDataOf(rating_obj) ==
    IF DOMAIN rating_obj = {} THEN EmptyMap
    ELSE IF "ratings" \in DOMAIN rating_obj THEN rating_obj["ratings"]
    ELSE rating_obj

EvalData(ratings_by_name, name) == EvalDataOf(Get(ratings_by_name, name, EmptyMap))

\* assoc = ConsultationDiagnosis(...); self.db.add(assoc), on the session s1
\* that get_or_create_diagnosis left.
AddDiagnosisRow(s1, diagnosis_id, eval_data) ==
    IF s1.error # None THEN s1
    ELSE IF ~(DOMAIN eval_data \subseteq DiagnosisRatingColumns)
    THEN [s1 EXCEPT !.error = "TypeError"]
    ELSE [s1 EXCEPT !.added_diagnoses =
             Append(@, ConsultationDiagnosis(s1.cid, diagnosis_id, eval_data))]

\* The key of the row get_or_create_diagnosis returned.
DiagnosisIdIn(s1, diag_name) == RowByName(s1.work.diagnoses, diag_name).id

\* One pass of the loop over selected_diagnoses.
AddSelectedDiagnosisIn(s1, diag_name, ai_diag) ==
    AddDiagnosisRow(s1, DiagnosisIdIn(s1, diag_name), EvalData(ai_diag, diag_name))

AddSelectedDiagnosis(s, diag_name, ai_diag) ==
    AddSelectedDiagnosisIn(get_or_create_diagnosis(s, diag_name), diag_name, ai_diag)

RECURSIVE AddSelectedDiagnoses(_, _, _)
AddSelectedDiagnoses(s, names, ai_diag) ==
    IF names = <<>> \/ s.error # None THEN s
    ELSE AddSelectedDiagnoses(AddSelectedDiagnosis(s, Head(names), ai_diag),
                              Tail(names), ai_diag)

\* assoc = ConsultationExam(...); self.db.add(assoc), on the session s1 that
\* get_or_create_exam left.
AddExamRow(s1, exam_id, eval_data) ==
    IF s1.error # None THEN s1
    ELSE IF ~(DOMAIN eval_data \subseteq ExamRatingColumns)
    THEN [s1 EXCEPT !.error = "TypeError"]
    ELSE [s1 EXCEPT !.added_exams =
             Append(@, ConsultationExam(s1.cid, exam_id, eval_data))]

\* The key of the row get_or_create_exam returned.
ExamIdIn(s1, exam_name) == RowByName(s1.work.exams, exam_name).id

\* One pass of the loop over selected_exams.
AddSelectedExamIn(s1, exam_name, ai_exam) ==
    AddExamRow(s1, ExamIdIn(s1, exam_name), EvalData(ai_exam, exam_name))

AddSelectedExam(s, exam_name, ai_exam) ==
    AddSelectedExamIn(get_or_create_exam(s, exam_name), exam_name, ai_exam)

RECURSIVE AddSelectedExams(_, _, _)
AddSelectedExams(s, names, ai_exam) ==
    IF names = <<>> \/ s.error # None THEN s
    ELSE AddSelectedExams(AddSelectedExam(s, Head(names), ai_exam),
                          Tail(names), ai_exam)

\* An update that opens a new consultation every time.
ConsultationToUpdate_always_new(cs, patient) == NewConsultation(patient.id)

\* The last consultation of the patient, or the Consultation(patient_id=...)
\* that is added to the session when there is none.
ConsultationToUpdate(cs, patient) ==
    IF cs = <<>> THEN NewConsultation(patient.id) ELSE cs[Len(cs)]

\* A timestamp that falls back on the time of the call.
TimestampOf_defaults_to_now(timestamp_str) ==
    IF timestamp_str \in {None, ""} THEN "2024-01-01T00:00:00"
    ELSE fromisoformat(timestamp_str)

\* meta_data.get('timestamp') parsed.
TimestampOf(timestamp_str) ==
    IF timestamp_str \in {None, ""} THEN None ELSE fromisoformat(timestamp_str)

RecordTimestamp(full_patient_record) ==
    TimestampOf(Get(Get(full_patient_record, "meta", EmptyMap), "timestamp", None))

\* The columns update_consultation assigns, on the consultation it updates.
Overwritten(consultation, full_patient_record) ==
    [SetConsultationFields(consultation, Get(full_patient_record, "patient", EmptyMap))
        EXCEPT !.timestamp = RecordTimestamp(full_patient_record),
               !.ai_diag_raw = Get(full_patient_record, "ai_diag", None),
               !.ai_exam_raw = Get(full_patient_record, "ai_exam", None)]

\* The session with the consultation overwritten and its association rows
\* deleted.
Cleared(s, consultation, written) ==
    [s EXCEPT
        !.cid = written.id,
        !.work.consultations = (@ \ {consultation}) \cup {written},
        !.work.consultation_diagnoses = DeleteAssociations(@, written.id),
        !.work.consultation_exams = DeleteAssociations(@, written.id)]

\* The loop over selected_diagnoses, behind its guard.
DiagnosesAdded(s1, full_patient_record, evaluations) ==
    IF "ai_diag" \in DOMAIN evaluations
          /\ "selected_diagnoses" \in DOMAIN full_patient_record
    THEN AddSelectedDiagnoses(s1, full_patient_record["selected_diagnoses"],
                              evaluations["ai_diag"])
    ELSE s1

\* The loop over selected_exams, behind its guard.
ExamsAdded(s2, full_patient_record, evaluations) ==
    IF "ai_exam" \in DOMAIN evaluations
          /\ "selected_exams" \in DOMAIN full_patient_record
    THEN AddSelectedExams(s2, full_patient_record["selected_exams"],
                          evaluations["ai_exam"])
    ELSE s2

\* self.db.commit() at the end, unless an exception left the method before.
FinalCommit(s3) == IF s3.error # None THEN s3 ELSE Commit(s3)

UpdateOf(s, consultation, full_patient_record) ==
    FinalCommit(
        ExamsAdded(
            DiagnosesAdded(
                Cleared(s, consultation, Overwritten(consultation, full_patient_record)),
                full_patient_record, Get(full_patient_record, "evaluations", EmptyMap)),
            full_patient_record, Get(full_patient_record, "evaluations", EmptyMap)))

\* The body of update_consultation once the patient is found, on session s.
UpdateFound(s, patient, full_patient_record) ==
    IF RecordTimestamp(full_patient_record) = "ValueError"
    THEN [s EXCEPT !.error = "ValueError"]
    ELSE UpdateOf(s, ConsultationToUpdate(consultations_of(s.work, patient), patient),
                  full_patient_record)

\* What the caller of update_consultation gets from the session it ran in.
Returned(s) ==
    [db |-> Close(s),
     returns |-> IF s.error = None THEN "patient" ELSE "raised",
     error |-> s.error]

\* An update without the check for a missing patient.
update_consultation_unchecked(store, patient_uuid, full_patient_record) ==
    Returned(UpdateFound(Session(store), get_patient_by_uuid(store, patient_uuid),
                         full_patient_record))

\* update_consultation in a session of its own: the store it leaves and what
\* its caller gets ("None": no such patient, "patient": the refreshed
\* patient, "raised": an exception).
update_consultation(store, patient_uuid, full_patient_record) ==
    IF get_patient_by_uuid(store, patient_uuid) = NoRow
    THEN [db |-> store, returns |-> "None", error |-> None]
    ELSE Returned(UpdateFound(Session(store), get_patient_by_uuid(store, patient_uuid),
                              full_patient_record))

\* A delete that detaches the consultations of every patient.
delete_patient_detaches_all(store, patient_uuid) ==
    LET patient == get_patient_by_uuid(store, patient_uuid)
        orphaned == store.consultations
    IN IF patient = NoRow THEN [db |-> store, returns |-> "False", error |-> None]
       ELSE [db |-> [store EXCEPT
                        !.patients = @ \ {patient},
                        !.consultations =
                            (@ \ orphaned)
                                \cup {[c EXCEPT !.patient_id = NullId] : c \in orphaned}],
             returns |-> "True", error |-> None]

\* delete_patient: db.delete(patient) and commit.  Patient.consultations
\* declares no delete cascade, so the unit of work sets patient_id of the
\* patient's consultations to NULL and deletes the Patient row alone.
delete_patient(store, patient_uuid) ==
    LET patient == get_patient_by_uuid(store, patient_uuid)
        orphaned == {c \in store.consultations : c.patient_id = patient.id}
    IN IF patient = NoRow THEN [db |-> store, returns |-> "False", error |-> None]
       ELSE [db |-> [store EXCEPT
                        !.patients = @ \ {patient},
                        !.consultations =
                            (@ \ orphaned)
                                \cup {[c EXCEPT !.patient_id = NullId] : c \in orphaned}],
             returns |-> "True", error |-> None]

\* list_patients: every row of the patients table.
list_patients(store) == store.patients

\* A create that leaves the timestamp of the consultation unset.
create_patient_and_consultation_drops_timestamp(store, patient_data) ==
    LET new_patient == [id |-> NextId(store.patients),
                        uuid |-> patient_data.meta.uuid,
                        age |-> Get(patient_data.patient, "age", None),
                        gender |-> Get(patient_data.patient, "gender", None)]
        s1 == Commit([Session(store) EXCEPT !.work.patients = @ \cup {new_patient}])
        timestamp_str == Get(patient_data.meta, "timestamp", None)
        timestamp_obj == IF timestamp_str \in {None, ""} THEN None
                         ELSE fromisoformat(timestamp_str)
        new_consultation ==
            [SetConsultationFields(NewConsultation(new_patient.id),
                                   [k \in DOMAIN patient_data.patient \ {"id", "patient_id"}
                                        |-> patient_data.patient[k]])
                EXCEPT !.lang = Get(patient_data.meta, "lang", None)]
        s2 == Commit([s1 EXCEPT !.work.consultations = @ \cup {new_consultation}])
    IN IF s1.error # None
       THEN [db |-> Close(s1), returns |-> "raised", error |-> s1.error]
       ELSE IF timestamp_obj = "ValueError"
       THEN [db |-> Close(s1), returns |-> "raised", error |-> "ValueError"]
       ELSE [db |-> Close(s2), returns |-> "patient", error |-> s2.error]

\* create_patient_and_consultation: the Patient is committed first, then
\* the timestamp is parsed and the Consultation built and committed.
\* ConsultationCreate keeps the consultation columns the patient mapping
\* names (model_dump(exclude_unset=True)) and ignores its other keys.
create_patient_and_consultation(store, patient_data) ==
    LET new_patient == [id |-> NextId(store.patients),
                        uuid |-> patient_data.meta.uuid,
                        age |-> Get(patient_data.patient, "age", None),
                        gender |-> Get(patient_data.patient, "gender", None)]
        s1 == Commit([Session(store) EXCEPT !.work.patients = @ \cup {new_patient}])
        timestamp_str == Get(patient_data.meta, "timestamp", None)
        timestamp_obj == IF timestamp_str \in {None, ""} THEN None
                         ELSE fromisoformat(timestamp_str)
        new_consultation ==
            [SetConsultationFields(NewConsultation(new_patient.id),
                                   [k \in DOMAIN patient_data.patient \ {"id", "patient_id"}
                                        |-> patient_data.patient[k]])
                EXCEPT !.timestamp = timestamp_obj,
                       !.lang = Get(patient_data.meta, "lang", None)]
        s2 == Commit([s1 EXCEPT !.work.consultations = @ \cup {new_consultation}])
    IN IF s1.error # None
       THEN [db |-> Close(s1), returns |-> "raised", error |-> s1.error]
       ELSE IF timestamp_obj = "ValueError"
       THEN [db |-> Close(s1), returns |-> "raised", error |-> "ValueError"]
       ELSE [db |-> Close(s2), returns |-> "patient", error |-> s2.error]

\* ---------------------------------------------------------- flattening
\* The names of the reference rows the association rows point to, in key
\* order.
RefNames(refs, ids) ==
    LET ordered == SortedById({r \in refs : r.id \in ids})
    IN [i \in 1..Len(ordered) |-> ordered[i].name]

DiagnosisRow(store, cid, name) ==
    CHOOSE a \in selected_diagnoses_of(store, cid) :
        a.diagnosis_id = RowByName(store.diagnoses, name).id

ExamRow(store, cid, name) ==
    CHOOSE a \in selected_exams_of(store, cid) :
        a.exam_id = RowByName(store.exams, name).id

\* patient_to_dict: {} for no patient, else the nested full record.
patient_to_dict(store, patient) ==
    LET cs == consultations_of(store, patient)
        has == cs # <<>>
        consultation == cs[Len(cs)]
        diag_names == RefNames(store.diagnoses,
                         {a.diagnosis_id : a \in selected_diagnoses_of(store, consultation.id)})
        exam_names == RefNames(store.exams,
                         {a.exam_id : a \in selected_exams_of(store, consultation.id)})
        fields == {"weight_kg", "height_cm", "diet", "sleep_hours", "physical_activity",
                   "mental_exercises", "symptoms", "mental_health", "previous_tests",
                   "wearable_data"}
    IN IF patient = NoRow THEN EmptyMap
       ELSE
        [meta |-> [uuid |-> patient.uuid,
                   lang |-> IF has THEN consultation.lang ELSE None,
                   timestamp |-> IF has THEN consultation.timestamp ELSE None],
         patient |-> IF has
                     THEN [k \in {"age", "gender"} \cup fields |->
                              IF k = "age" THEN patient.age
                              ELSE IF k = "gender" THEN patient.gender
                              ELSE consultation[k]]
                     ELSE [age |-> patient.age, gender |-> patient.gender],
         selected_diagnoses |-> IF has THEN diag_names ELSE <<>>,
         selected_exams |-> IF has THEN exam_names ELSE <<>>,
         ai_diag |-> IF has THEN consultation.ai_diag_raw ELSE "{}",
         ai_exam |-> IF has THEN consultation.ai_exam_raw ELSE "{}",
         evaluations |->
            [ai_diag |->
                IF has
                THEN [n \in SeqToSet(diag_names) |->
                        LET assoc == DiagnosisRow(store, consultation.id, n)
                        IN [ratings |-> [accuracy |-> assoc.accuracy,
                                         relevance |-> assoc.relevance,
                                         usefulness |-> assoc.usefulness,
                                         coherence |-> assoc.coherence,
                                         comments |-> assoc.comments]]]
                ELSE EmptyMap,
             ai_exam |->
                IF has
                THEN [n \in SeqToSet(exam_names) |->
                        LET assoc == ExamRow(store, consultation.id, n)
                        IN [ratings |-> [accuracy |-> assoc.accuracy,
                                         relevance |-> assoc.relevance,
                                         usefulness |-> assoc.usefulness,
                                         coherence |-> assoc.coherence,
                                         safety |-> assoc.safety,
                                         comments |-> assoc.comments]]]
                ELSE EmptyMap]]

\* --------------------------------------------------------------- reports
\* An uploaded file: its name as [stem, ext] (the text stem "." ext, or stem
\* alone when ext is ""), the declared media type, and what the extractor
\* makes of its content.
FileName(stem, ext) == [stem |-> stem, ext |-> ext]
NoFileName == FileName("", "")

\* str.lower() on the name parts the model uploads.
LowerPart(text) ==
    IF text = "PDF" THEN "pdf"
    ELSE IF text = "A" THEN "a"
    ELSE IF text = "B" THEN "b"
    ELSE text

Lower(filename) == FileName(LowerPart(filename.stem), LowerPart(filename.ext))

\* MedicalReportFileExtractor.allowed_mimetypes / allowed_extensions.
AllowedMimetypes == {"application/pdf", "image/png", "image/jpeg", "image/jpg"}
AllowedExtensions == {"pdf", "png", "jpeg", "jpg"}

\* load_fhir_reports: the stored list, [] when the column is None, empty
\* or not a list.
load_fhir_reports(consultation) ==
    LET reports == consultation.previous_tests
    IN IF reports.tag # "list" THEN <<>>
       ELSE reports.items

\* Whether load_fhir_reports handed out the very list object the column
\* holds (a non-empty list) rather than a fresh [].
LoadedIsStoredObject(consultation) ==
    /\ consultation.previous_tests.tag = "list"
    /\ consultation.previous_tests.items # <<>>

\* validate_report_file asking for the media type and the extension both.
validate_report_file_requires_both(report, seen_filenames) ==
    LET filename_lower == Lower(report.filename)
    IN IF filename_lower \in seen_filenames
       THEN [valid |-> FALSE, error |-> "File already uploaded"]
       ELSE IF report.content_type \notin AllowedMimetypes
                 \/ ~(\E ext \in AllowedExtensions : filename_lower.ext = ext)
       THEN [valid |-> FALSE, error |-> "Only PDF, PNG, JPEG, JPG files allowed"]
       ELSE [valid |-> TRUE, error |-> None]

validate_report_file(report, seen_filenames) ==
    LET filename_lower == Lower(report.filename)
    IN IF filename_lower \in seen_filenames
       THEN [valid |-> FALSE, error |-> "File already uploaded"]
       ELSE IF report.content_type \notin AllowedMimetypes
                 /\ ~(\E ext \in AllowedExtensions : filename_lower.ext = ext)
       THEN [valid |-> FALSE, error |-> "Only PDF, PNG, JPEG, JPG files allowed"]
       ELSE [valid |-> TRUE, error |-> None]

\* process_uploaded_reports without its `except Exception` clause: what the
\* extractor raises besides MedicalReportExtractorError reaches the caller.
RECURSIVE ProcessReports_uncaught(_, _, _, _)
ProcessReports_uncaught(reports, seen_filenames, fhir_reports, closed) ==
    IF reports = <<>>
    THEN [reports |-> fhir_reports, error |-> None, seen |-> seen_filenames,
          closed |-> closed]
    ELSE
      LET report == Head(reports)
          checked == validate_report_file(report, seen_filenames)
          failed(msg) == [reports |-> <<>>, error |-> msg, seen |-> seen_filenames,
                          closed |-> closed \cup {report.filename}]
      IN IF report.filename = NoFileName
         THEN ProcessReports_uncaught(Tail(reports), seen_filenames, fhir_reports, closed)
         ELSE IF ~checked.valid THEN failed(checked.error)
         ELSE IF report.extract = "MedicalReportExtractorError"
         THEN failed("Failed to extract report data")
         ELSE IF report.extract = "Exception" THEN failed("raised")
         ELSE IF report.extract # "dict" THEN failed("Failed to process report")
         ELSE ProcessReports_uncaught(Tail(reports),
                             seen_filenames \cup {Lower(report.filename)},
                             Append(fhir_reports,
                                    [filename |-> report.filename, data |-> report.data]),
                             closed \cup {report.filename})

\* A loop that hands back, with the error, the documents extracted before
\* the failing file.
RECURSIVE ProcessReports_keeps_partial(_, _, _, _)
ProcessReports_keeps_partial(reports, seen_filenames, fhir_reports, closed) ==
    IF reports = <<>>
    THEN [reports |-> fhir_reports, error |-> None, seen |-> seen_filenames,
          closed |-> closed]
    ELSE
      LET report == Head(reports)
          checked == validate_report_file(report, seen_filenames)
          failed(msg) == [reports |-> fhir_reports, error |-> msg,
                          seen |-> seen_filenames,
                          closed |-> closed \cup {report.filename}]
      IN IF report.filename = NoFileName
         THEN ProcessReports_keeps_partial(Tail(reports), seen_filenames, fhir_reports,
                                           closed)
         ELSE IF ~checked.valid THEN failed(checked.error)
         ELSE IF report.extract = "MedicalReportExtractorError"
         THEN failed("Failed to extract report data")
         ELSE IF report.extract = "Exception" THEN failed("Error processing report")
         ELSE IF report.extract # "dict" THEN failed("Failed to process report")
         ELSE ProcessReports_keeps_partial(
                  Tail(reports), seen_filenames \cup {Lower(report.filename)},
                  Append(fhir_reports,
                         [filename |-> report.filename, data |-> report.data]),
                  closed \cup {report.filename})

\* process_uploaded_reports: (fhir_reports, error), and the files closed.
RECURSIVE ProcessReports(_, _, _, _)
ProcessReports(reports, seen_filenames, fhir_reports, closed) ==
    IF reports = <<>>
    THEN [reports |-> fhir_reports, error |-> None, seen |-> seen_filenames,
          closed |-> closed]
    ELSE
      LET report == Head(reports)
          checked == validate_report_file(report, seen_filenames)
          failed(msg) == [reports |-> <<>>, error |-> msg, seen |-> seen_filenames,
                          closed |-> closed \cup {report.filename}]
      IN IF report.filename = NoFileName
         THEN ProcessReports(Tail(reports), seen_filenames, fhir_reports, closed)
         ELSE IF ~checked.valid THEN failed(checked.error)
         ELSE IF report.extract = "MedicalReportExtractorError"
         THEN failed("Failed to extract report data")
         ELSE IF report.extract = "Exception" THEN failed("Error processing report")
         ELSE IF report.extract # "dict" THEN failed("Failed to process report")
         ELSE ProcessReports(Tail(reports),
                             seen_filenames \cup {Lower(report.filename)},
                             Append(fhir_reports,
                                    [filename |-> report.filename, data |-> report.data]),
                             closed \cup {report.filename})

process_uploaded_reports(reports, seen_filenames) ==
    ProcessReports(reports, seen_filenames, <<>>, {})

\* ------------------------------------------------------------- handlers
\* Each handler gives the store its request leaves and the HTTP status.
Response(store, status) == [db |-> store, status |-> status]

\* The last consultation of a patient that has one.
LastConsultation(store, patient) ==
    LET cs == consultations_of(store, patient) IN cs[Len(cs)]

HasConsultation(store, patient) ==
    patient # NoRow /\ consultations_of(store, patient) # <<>>

\* consultation.<column> = value ...; repo.db.commit()
WriteConsultation(store, consultation, written) ==
    Close(Commit([Session(store) EXCEPT
                    !.work.consultations = (@ \ {consultation}) \cup {written}]))

\* POST /start
start_new_consultation(store, patient_uuid, lang) ==
    LET out == create_patient_and_consultation(store,
                   [meta |-> [uuid |-> patient_uuid, lang |-> lang], patient |-> EmptyMap])
    IN Response(out.db, IF out.returns = "raised" THEN "500" ELSE "303")

\* POST /demographics
demographics_post(store, patient_id, age, gender, weight_kg, height_cm) ==
    LET patient == get_patient_by_uuid(store, patient_id)
        consultation == LastConsultation(store, patient)
        s == Commit([Session(store) EXCEPT
                !.work.patients = (@ \ {patient})
                    \cup {[patient EXCEPT !.age = age, !.gender = gender]},
                !.work.consultations = (@ \ {consultation})
                    \cup {[consultation EXCEPT !.weight_kg = weight_kg,
                                               !.height_cm = height_cm]}])
    IN IF ~HasConsultation(store, patient) THEN Response(store, "500")
       ELSE Response(Close(s), "303")

\* POST /lifestyle
lifestyle_post(store, patient_id, diet, sleep_hours, physical_activity, mental_exercises) ==
    LET patient == get_patient_by_uuid(store, patient_id)
        consultation == LastConsultation(store, patient)
    IN IF ~HasConsultation(store, patient) THEN Response(store, "500")
       ELSE Response(WriteConsultation(store, consultation,
                        [consultation EXCEPT !.diet = diet,
                                             !.sleep_hours = sleep_hours,
                                             !.physical_activity = physical_activity,
                                             !.mental_exercises = mental_exercises]),
                     "303")

\* POST /symptoms
symptoms_post(store, patient_id, symptoms) ==
    LET patient == get_patient_by_uuid(store, patient_id)
        consultation == LastConsultation(store, patient)
    IN IF ~HasConsultation(store, patient) THEN Response(store, "500")
       ELSE Response(WriteConsultation(store, consultation,
                        [consultation EXCEPT !.symptoms = symptoms]), "303")

\* POST /mental
mental_post(store, patient_id, mental_health) ==
    LET patient == get_patient_by_uuid(store, patient_id)
        consultation == LastConsultation(store, patient)
    IN IF ~HasConsultation(store, patient) THEN Response(store, "500")
       ELSE Response(WriteConsultation(store, consultation,
                        [consultation EXCEPT !.mental_health = mental_health]), "303")

\* save_fhir_reports: consultation.previous_tests = reports; commit.  The
\* unit of work writes the column only when the assigned value differs from
\* the value the attribute held, so a list that is the stored object itself,
\* extended in place, writes nothing.  A failed commit is rolled back and
\* raised as ValueError('Failed to save reports').
save_fhir_reports(store, consultation, reports, same_object, commit_ok) ==
    LET written == IF same_object THEN consultation
                   ELSE [consultation EXCEPT !.previous_tests = JList(reports)]
    IN IF commit_ok
       THEN [db |-> WriteConsultation(store, consultation, written), error |-> None]
       ELSE [db |-> store, error |-> "Failed to save reports"]

\* ------------------------------------------------- reports kept as text
\* research/app/reports.py keeps the documents in the column as JSON text.
\* A text is what it decodes to: form "json" decodes to `value`, form
\* "unquoted_stars" is JSON but for bare runs of asterisks where values
\* belong (`value` is what it decodes to once they are quoted), form
\* "garbage" is no JSON at all and form "empty" is ''.
Text(form, value) == [tag |-> "text", form |-> form, value |-> value]
EmptyText == Text("empty", JNone)
Garbage == Text("garbage", JNone)
\* A JSON string value, holding the text it spells.
JStr(text) == [tag |-> "str", text |-> text]
\* A JSON object and a JSON number at the top level.
JDict == [tag |-> "dict"]
JNumber == [tag |-> "number"]

\* Document text in which a colon is followed by asterisks and then a comma.
StarData == "dose: *, daily"

\* json.dumps
json_dumps(value) == Text("json", value)

\* Whether the encoded text of a value shows a colon, asterisks, then one of
\* `,` `}` `]` inside one of its strings.
RECURSIVE StarsInStrings(_)
StarsInStrings(value) ==
    IF value.tag = "list"
    THEN \E i \in 1..Len(value.items) : value.items[i].data = StarData
    ELSE IF value.tag = "str"
    THEN value.text.form = "json" /\ StarsInStrings(value.text.value)
    ELSE FALSE

\* re.sub(r':\s*\*+(?=\s*[,}\]])', ': "REDACTED"', raw): bare asterisks
\* become a quoted word; the same pattern inside a string splits the string
\* with unescaped quotes and leaves text that is not JSON.
Sanitized(raw) ==
    IF raw.form = "unquoted_stars" THEN Text("json", raw.value)
    ELSE IF raw.form = "json" /\ StarsInStrings(raw.value) THEN Garbage
    ELSE raw

\* json.loads; JSONDecodeError is what it raises on text that is not JSON.
JSONDecodeError == [tag |-> "JSONDecodeError"]
json_loads(text) == IF text.form = "json" THEN text.value ELSE JSONDecodeError

\* The list check at the end of the text variant's load_fhir_reports.
ListOrEmpty(reports) ==
    IF reports.tag # "list" THEN <<>>
    ELSE reports.items

\* The second json.loads, applied when the first one gave a string.
DecodedTwice(reports) ==
    IF reports.tag = "str" THEN json_loads(reports.text)
    ELSE reports

\* load_fhir_reports of research/app/reports.py: [] for a falsy column;
\* re.sub on a value that is not text raises TypeError, caught like any
\* other exception.
load_fhir_reports_text(consultation) ==
    LET raw == consultation.previous_tests
    IN IF raw \in {JNone, EmptyText, JList(<<>>)} THEN <<>>
       ELSE IF raw.tag # "text" THEN <<>>
       ELSE ListOrEmpty(DecodedTwice(json_loads(Sanitized(raw))))

\* save_fhir_reports of research/app/reports.py:
\* consultation.previous_tests = json.dumps(reports); commit.
save_fhir_reports_text(store, consultation, reports, commit_ok) ==
    LET written == [consultation EXCEPT
                      !.previous_tests = json_dumps(JList(reports))]
    IN IF commit_ok
       THEN [db |-> WriteConsultation(store, consultation, written), error |-> None]
       ELSE [db |-> store, error |-> "Failed to save reports"]

\* POST /tests
tests_post(store, patient_id, has_reports, reports, action, commit_ok) ==
    LET patient == get_patient_by_uuid(store, patient_id)
        consultation == LastConsultation(store, patient)
        fhir_reports == load_fhir_reports(consultation)
        seen_filenames == {Lower(fhir_reports[i].filename) : i \in 1..Len(fhir_reports)}
        skipped == save_fhir_reports(store, consultation, <<>>, FALSE, commit_ok)
        processed == process_uploaded_reports(reports, seen_filenames)
        saved == save_fhir_reports(store, consultation,
                                   fhir_reports \o processed.reports,
                                   LoadedIsStoredObject(consultation), commit_ok)
    IN IF patient = NoRow THEN Response(store, "404")
       ELSE IF ~HasConsultation(store, patient) THEN Response(store, "400")
       ELSE IF has_reports = "no"
       THEN Response(skipped.db, IF skipped.error # None THEN "200" ELSE "303")
       ELSE IF action = "upload" /\ reports # <<>>
       THEN IF processed.error # None THEN Response(store, "200")
            ELSE Response(saved.db, "200")
       ELSE IF action = "continue" THEN Response(store, "303")
       ELSE Response(store, "200")

\* What WearableDataFileExtractor makes of an accepted upload.
WearableData == JList(<<[kind |-> "heart_rate"]>>)

\* POST /wearable; file is NoRow for no upload, else [size, extract].
wearable_post(store, patient_id, file, skip) ==
    LET patient == get_patient_by_uuid(store, patient_id)
        consultation == LastConsultation(store, patient)
    IN IF ~HasConsultation(store, patient) THEN Response(store, "500")
       ELSE IF skip \notin {None, ""}
       THEN Response(WriteConsultation(store, consultation,
                        [consultation EXCEPT !.wearable_data = JList(<<>>)]), "303")
       ELSE IF file # NoRow /\ file.size > 0
       THEN IF file.extract = "data"
            THEN Response(WriteConsultation(store, consultation,
                            [consultation EXCEPT !.wearable_data = WearableData]), "303")
            ELSE Response(store, "200")
       ELSE Response(store, "200")

\* GET /diagnosis: stores the raw suggestions of the AI engine.
diagnosis(store, patient_id, ai) ==
    LET patient == get_patient_by_uuid(store, patient_id)
        consultation == LastConsultation(store, patient)
    IN IF ~HasConsultation(store, patient) \/ ai = "Exception" THEN Response(store, "500")
       ELSE Response(WriteConsultation(store, consultation,
                        [consultation EXCEPT !.ai_diag_raw = ai]), "200")

\* GET /exams
exams(store, patient_id, ai) ==
    LET patient == get_patient_by_uuid(store, patient_id)
        consultation == LastConsultation(store, patient)
    IN IF ~HasConsultation(store, patient) \/ ai = "Exception" THEN Response(store, "500")
       ELSE Response(WriteConsultation(store, consultation,
                        [consultation EXCEPT !.ai_exam_raw = ai]), "200")

\* mapping[key] = value on a mapping.
SetKey(mapping, key, value) ==
    [k \in DOMAIN mapping \cup {key} |-> IF k = key THEN value ELSE mapping[k]]

\* {name: {'ratings': rating} for name in selected}
RatingsOf(selected, rating) ==
    [n \in SeqToSet(selected) |-> [ratings |-> rating]]

\* The record POST /diagnosis hands to update_consultation.
diagnosis_record(store, patient_id, selected, custom, rating) ==
    LET record0 == patient_to_dict(store, get_patient_by_uuid(store, patient_id))
        record1 == SetKey(record0, "selected_diagnoses", selected \o custom)
    IN SetKey(record1, "evaluations",
              [ai_diag |-> RatingsOf(selected, rating), ai_exam |-> EmptyMap])

\* POST /diagnosis: rating is what the form holds for each ticked name.
diagnosis_post(store, patient_id, selected, custom, rating) ==
    LET record == diagnosis_record(store, patient_id, selected, custom, rating)
        out == update_consultation(store, patient_id, record)
    IN Response(out.db, IF out.returns = "raised" THEN "500" ELSE "303")

\* The de-identifier on one text.
Redact(text) == IF text = "see Dr. Who" THEN "see <PERSON>" ELSE text

\* deidentify_patient_record: the record with its free text scrubbed.
deidentify_patient_record(record) ==
    LET scrub(entries) ==
            [n \in DOMAIN entries |->
                [ratings |-> [entries[n].ratings EXCEPT !.comments = Redact(@)]]]
    IN [record EXCEPT !.patient =
                          [k \in DOMAIN @ |->
                              IF k \in {"symptoms", "mental_health"} THEN Redact(@[k])
                              ELSE @[k]],
                      !.evaluations.ai_diag = scrub(@),
                      !.evaluations.ai_exam = scrub(@)]

\* An exams submission that starts the evaluations afresh, as the diagnosis
\* one does.
exams_post_resets_evaluations(store, patient_id, selected, custom, rating, now) ==
    LET record0 == patient_to_dict(store, get_patient_by_uuid(store, patient_id))
        record == [record0 EXCEPT
                     !.selected_exams = selected \o custom,
                     !.meta.timestamp = now,
                     !.evaluations = [ai_diag |-> EmptyMap,
                                      ai_exam |-> RatingsOf(selected, rating)]]
        out == update_consultation(store, patient_id, deidentify_patient_record(record))
    IN IF DOMAIN record0 = {} THEN Response(store, "500")
       ELSE Response(out.db, IF out.returns = "raised" THEN "500" ELSE "303")

\* The record POST /exams hands to update_consultation, de-identified.
exams_record(store, patient_id, selected, custom, rating, now) ==
    LET record0 == patient_to_dict(store, get_patient_by_uuid(store, patient_id))
        old == record0.evaluations.ai_exam
        new == RatingsOf(selected, rating)
    IN deidentify_patient_record(
           [record0 EXCEPT
               !.selected_exams = selected \o custom,
               !.meta.timestamp = now,
               !.evaluations.ai_exam =
                   [n \in DOMAIN old \cup DOMAIN new |->
                       IF n \in DOMAIN new THEN new[n] ELSE old[n]]])

\* POST /exams: now is datetime.utcnow().isoformat().
exams_post(store, patient_id, selected, custom, rating, now) ==
    LET record0 == patient_to_dict(store, get_patient_by_uuid(store, patient_id))
        out == update_consultation(store, patient_id,
                   exams_record(store, patient_id, selected, custom, rating, now))
    IN IF DOMAIN record0 = {} THEN Response(store, "500")
       ELSE Response(out.db, IF out.returns = "raised" THEN "500" ELSE "303")

\* POST /delete-patient/{patient_id}
delete_patient_post(store, patient_id) ==
    Response(delete_patient(store, patient_id).db, "303")

\* ------------------------------------------------------- request inputs
Langs == {"en"}
NoDiagnosisRating ==
    [accuracy |-> None, relevance |-> None, usefulness |-> None, coherence |-> None,
     comments |-> None]
DiagnosisRating ==
    [accuracy |-> "5", relevance |-> "4", usefulness |-> "3", coherence |-> "2",
     comments |-> "see Dr. Who"]
NoExamRating ==
    [accuracy |-> None, relevance |-> None, usefulness |-> None, coherence |-> None,
     safety |-> None, comments |-> None]
ExamRating ==
    [accuracy |-> "5", relevance |-> "4", usefulness |-> "3", coherence |-> "2",
     safety |-> "safe", comments |-> "see Dr. Who"]
Clock == {"2024-01-01T00:00:00"}

PdfA == [filename |-> FileName("a", "pdf"), content_type |-> "application/pdf",
         extract |-> "dict", data |-> "A"]
PdfAUpper == [filename |-> FileName("A", "PDF"), content_type |-> None,
              extract |-> "dict", data |-> "A2"]
TxtB == [filename |-> FileName("b", "txt"), content_type |-> "text/plain",
         extract |-> "dict", data |-> "B"]
Unnamed == [filename |-> NoFileName, content_type |-> "application/pdf",
            extract |-> "dict", data |-> "U"]
Batches == {<<PdfA>>, <<PdfA, PdfAUpper>>, <<TxtB>>, <<Unnamed>>}
WearableFiles == {NoRow, [id |-> 1, size |-> 0, extract |-> "data"],
                  [id |-> 2, size |-> 10, extract |-> "data"],
                  [id |-> 3, size |-> 10, extract |-> "Exception"]}

\* ---------------------------------------------------------------- actions
\* A request served: the store its session leaves.
Serve(out) == db' = out.db /\ UNCHANGED <<last, sessions>>

\* The guard that keeps the keys of a run finite.
RoomForPatient ==
    /\ NextId(db.patients) <= MaxPatients
    /\ Cardinality(db.consultations) < MaxConsultations

StartNewConsultation ==
    \E u \in UUIDs, lang \in Langs :
        /\ get_patient_by_uuid(db, u) = NoRow
        /\ RoomForPatient
        /\ Serve(start_new_consultation(db, u, lang))

DemographicsPost(uuids) ==
    \E u \in uuids : Serve(demographics_post(db, u, "30", "f", "70", "170"))

LifestylePost(uuids) ==
    \E u \in uuids : Serve(lifestyle_post(db, u, "vegan", "8", "walks", "chess"))

SymptomsPost(uuids) ==
    \E u \in uuids : Serve(symptoms_post(db, u, "cough"))

MentalPost(uuids) ==
    \E u \in uuids : Serve(mental_post(db, u, "calm"))

TestsPost(uuids) ==
    \E u \in uuids, has_reports \in {"yes", "no"}, reports \in Batches,
       action \in {"upload", "continue"}, commit_ok \in BOOLEAN :
        Serve(tests_post(db, u, has_reports, reports, action, commit_ok))

WearablePost(uuids) ==
    \E u \in uuids, file \in WearableFiles, skip \in {None, "1"} :
        Serve(wearable_post(db, u, file, skip))

DiagnosisGet(uuids) ==
    \E u \in uuids, ai \in {"differential", "Exception"} : Serve(diagnosis(db, u, ai))

ExamsGet(uuids) ==
    \E u \in uuids, ai \in {"exams", "Exception"} : Serve(exams(db, u, ai))

DiagnosisPost(uuids, selections, customs) ==
    \E u \in uuids, selected \in selections, custom \in customs,
       rating \in {NoDiagnosisRating, DiagnosisRating} :
        Serve(diagnosis_post(db, u, selected, custom, rating))

ExamsPost(uuids, selections, customs) ==
    \E u \in uuids, selected \in selections, custom \in customs,
       rating \in {NoExamRating, ExamRating}, now \in Clock :
        Serve(exams_post(db, u, selected, custom, rating, now))

DeletePatientPost ==
    \E u \in UUIDs : Serve(delete_patient_post(db, u))

\* Direct calls of the repository, as the tests make them.
CreateInputs ==
    {[meta |-> [uuid |-> u, lang |-> "en", timestamp |-> t], patient |-> p] :
        u \in UUIDs, t \in {None, "2023-10-26", "yesterday"},
        p \in {EmptyMap, [age |-> "30", gender |-> "f"]}}

CreatePatientAndConsultation ==
    \E patient_data \in CreateInputs :
        /\ RoomForPatient
        /\ Serve(create_patient_and_consultation(db, patient_data))

DeletePatient ==
    \E u \in UUIDs : Serve(delete_patient(db, u))

UpdateConsultation(uuids, records) ==
    \E u \in uuids, record \in records : Serve(update_consultation(db, u, record))

GetOrCreateDiagnosis ==
    \E name \in DiagNames :
        Serve([db |-> Close(get_or_create_diagnosis(Session(db), name))])

GetOrCreateExam ==
    \E name \in ExamNames :
        Serve([db |-> Close(get_or_create_exam(Session(db), name))])

NoRequest == [op |-> "none", uuid |-> None, status |-> None]

\* ------------------------------------------------ the step machine alone
\* What _get_next_step reads of a patient: whether there is a consultation,
\* which fields are present, how many selections there are.
Presences ==
    [cons : BOOLEAN, age : BOOLEAN, diet : BOOLEAN, symptoms : BOOLEAN,
     mental_health : BOOLEAN, previous_tests : {"None", "empty", "full"},
     wearable_data : {"None", "empty", "full"}, diagnoses : 0..2, exams : 0..2]

\* Two sets of submitted values, so that two patients with the same
\* presence hold different data.
StepValues ==
    [a |-> [age |-> "30", diet |-> "vegan", symptoms |-> "cough", mental_health |-> "calm",
            doc |-> [filename |-> FileName("a", "pdf"), data |-> "A"], rating |-> "5"],
     b |-> [age |-> "0", diet |-> "keto", symptoms |-> "fever", mental_health |-> "low",
            doc |-> [filename |-> FileName("b", "png"), data |-> "B"], rating |-> "1"]]

StepJson(kind, doc) ==
    IF kind = "None" THEN JNone
    ELSE IF kind = "empty" THEN JList(<<>>)
    ELSE JList(<<doc>>)

StepPatient(id, uuid, pr, v) ==
    [id |-> id, uuid |-> uuid, age |-> IF pr.age THEN v.age ELSE None, gender |-> None]

StepConsultation(id, pr, v) ==
    [NewConsultation(id) EXCEPT
        !.id = id,
        !.diet = IF pr.diet THEN v.diet ELSE None,
        !.symptoms = IF pr.symptoms THEN v.symptoms ELSE None,
        !.mental_health = IF pr.mental_health THEN v.mental_health ELSE None,
        !.previous_tests = StepJson(pr.previous_tests, v.doc),
        !.wearable_data = StepJson(pr.wearable_data, v.doc)]

\* A store holding patient u1 and patient u2, both with presence pr.
StepStore(pr) ==
    LET va == StepValues.a
        vb == StepValues.b
        rows(cid, n, v) == {<<cid, k, v.rating>> : k \in 1..n}
        diag == rows(1, pr.diagnoses, va) \cup rows(2, pr.diagnoses, vb)
        exam == rows(1, pr.exams, va) \cup rows(2, pr.exams, vb)
    IN IF ~pr.cons
       THEN [EmptyStore EXCEPT
                !.patients = {StepPatient(1, "u1", pr, va), StepPatient(2, "u2", pr, vb)}]
       ELSE [patients |-> {StepPatient(1, "u1", pr, va), StepPatient(2, "u2", pr, vb)},
             consultations |-> {StepConsultation(1, pr, va), StepConsultation(2, pr, vb)},
             diagnoses |-> {[id |-> 1, name |-> "flu"], [id |-> 2, name |-> "cold"]},
             exams |-> {[id |-> 1, name |-> "xray"], [id |-> 2, name |-> "blood"]},
             consultation_diagnoses |->
                SetToBag({ConsultationDiagnosis(r[1], r[2], [accuracy |-> r[3]]) : r \in diag}),
             consultation_exams |->
                SetToBag({ConsultationExam(r[1], r[2], [accuracy |-> r[3]]) : r \in exam})]

InitStep ==
    /\ \E pr \in Presences :
          /\ pr.cons \/ (~pr.diet /\ ~pr.symptoms /\ ~pr.mental_health
                           /\ pr.previous_tests = "None" /\ pr.wearable_data = "None"
                           /\ pr.diagnoses = 0 /\ pr.exams = 0)
          /\ db = StepStore(pr)
    /\ last = NoRequest
    /\ sessions = NoSessions

\* consultation_gatekeeper / dashboard asking for a patient's next step.
GetNextStep ==
    \E u \in UUIDs :
        /\ get_patient_by_uuid(db, u) # NoRow
        /\ db' = db
        /\ last' = [op |-> "_get_next_step", uuid |-> u,
                    status |-> _get_next_step(db, get_patient_by_uuid(db, u))]
        /\ UNCHANGED sessions

NextStep == GetNextStep

SpecStep == InitStep /\ [][NextStep]_vars

\* The patient the last request named.
LastPatient == get_patient_by_uuid(db, last.uuid)

\* The steps in their fixed order, and for each whether its data is missing.
StepOrder ==
    <<"demographics", "lifestyle", "symptoms", "mental", "tests", "wearable",
      "diagnosis", "exams">>

StepMissing(store, patient) ==
    LET cs == consultations_of(store, patient)
        c == cs[Len(cs)]
    IN IF cs = <<>> THEN [i \in 1..8 |-> TRUE]
       ELSE <<patient.age = None,
              c.diet = None,
              c.symptoms = None,
              c.mental_health = None,
              c.previous_tests = JNone,
              c.wearable_data = JNone,
              ~\E a \in BagToSet(store.consultation_diagnoses) : a.consultation_id = c.id,
              ~\E a \in BagToSet(store.consultation_exams) : a.consultation_id = c.id>>

FirstMissingStep(store, patient) ==
    LET missing == StepMissing(store, patient)
        open == {i \in 1..8 : missing[i]}
    IN IF open = {} THEN "complete"
       ELSE StepOrder[CHOOSE i \in open : \A j \in open : i <= j]

\* C1: _get_next_step returns the first step of the fixed order whose data is
\* missing: demographics for a patient without consultation or without age,
\* then lifestyle, symptoms, mental, tests, wearable, diagnosis, exams by the
\* last consultation's diet, symptoms, mental_health, previous_tests,
\* wearable_data, diagnosis rows and exam rows, and complete when none is
\* missing.
C1_FirstMissingStep ==
    last.op = "_get_next_step" =>
        /\ last.status = FirstMissingStep(db, LastPatient)
        /\ consultations_of(db, LastPatient) = <<>> => last.status = "demographics"

C1_Witness ==
    /\ last.op = "_get_next_step"
    /\ last.status = "complete"
    /\ \A i \in 1..8 : ~StepMissing(db, LastPatient)[i]

\* What the step machine may depend on: presence of the fields and the
\* number of selections.
PresenceOf(store, patient) ==
    LET cs == consultations_of(store, patient)
        c == cs[Len(cs)]
    IN IF cs = <<>> THEN <<FALSE>>
       ELSE <<TRUE, patient.age = None, c.diet = None, c.symptoms = None,
              c.mental_health = None, c.previous_tests = JNone, c.wearable_data = JNone,
              Cardinality(selected_diagnoses_of(store, c.id)),
              Cardinality(selected_exams_of(store, c.id))>>

\* C2: _get_next_step is total, a function of presence only, and free of side
\* effects: every call answers one of the nine step names, patients with the
\* same field presence and selection counts get the same answer, and the
\* store is the same after the call.
C2_PureTotalFunction ==
    [][last'.op = "_get_next_step" =>
          /\ db' = db
          /\ last'.status \in StepNames
          /\ \A p, q \in db.patients :
                PresenceOf(db, p) = PresenceOf(db, q)
                    => _get_next_step(db, p) = _get_next_step(db, q)]_vars

C2_Witness ==
    /\ last.op = "_get_next_step"
    /\ last.status = "lifestyle"
    /\ \E p, q \in db.patients :
          /\ p.age # q.age
          /\ PresenceOf(db, p) = PresenceOf(db, q)

\* ------------------------------------------------------------ the wizard
\* One patient, just created by POST /start, and the step handlers in any
\* order; "u2" names no patient.
WizardDiagnoses == {<<>>, <<"flu">>}
WizardExams == {<<>>, <<"xray">>}

InitWizard ==
    /\ db = start_new_consultation(EmptyStore, "u1", "en").db
    /\ last = NoRequest
    /\ sessions = NoSessions

NextWizard ==
    \/ DemographicsPost(UUIDs)
    \/ LifestylePost(UUIDs)
    \/ SymptomsPost(UUIDs)
    \/ MentalPost(UUIDs)
    \/ TestsPost(UUIDs)
    \/ WearablePost(UUIDs)
    \/ DiagnosisGet(UUIDs)
    \/ ExamsGet(UUIDs)
    \/ DiagnosisPost(UUIDs, WizardDiagnoses, WizardDiagnoses)
    \/ ExamsPost(UUIDs, WizardExams, WizardExams)

SpecWizard == InitWizard /\ [][NextWizard]_vars

\* The step the gatekeeper answers for the patient a uuid names.
StepOf(store, u) == _get_next_step(store, get_patient_by_uuid(store, u))

\* The columns of the last consultation of the patient a uuid names.
ConsultationOf(store, u) == LastConsultation(store, get_patient_by_uuid(store, u))

\* C3: skipping leaves an empty list, and the machine advances.  Whenever
\* tests_post with has_reports = "no" answers with its redirect, previous_tests
\* of the consultation is the empty list and the next step is not "tests";
\* whenever wearable_post with skip set answers with its redirect,
\* wearable_data is the empty list and the next step is not "wearable"; and no
\* consultation whose previous_tests (wearable_data) is the empty list is
\* answered "tests" ("wearable").
C3_SkipLeavesEmptyList ==
    \A u \in UUIDs :
        /\ \A reports \in Batches, action \in {"upload", "continue"},
              commit_ok \in BOOLEAN :
            LET out == tests_post(db, u, "no", reports, action, commit_ok)
            IN out.status = "303" =>
                /\ ConsultationOf(out.db, u).previous_tests = JList(<<>>)
                /\ StepOf(out.db, u) # "tests"
        /\ \A file \in WearableFiles :
            LET out == wearable_post(db, u, file, "1")
            IN out.status = "303" =>
                /\ ConsultationOf(out.db, u).wearable_data = JList(<<>>)
                /\ StepOf(out.db, u) # "wearable"
        /\ HasConsultation(db, get_patient_by_uuid(db, u)) =>
            /\ ConsultationOf(db, u).previous_tests = JList(<<>>)
                  => StepOf(db, u) # "tests"
            /\ ConsultationOf(db, u).wearable_data = JList(<<>>)
                  => StepOf(db, u) # "wearable"

\* Both steps were skipped on a consultation that had reached "tests", and the
\* machine stands at "diagnosis".
C3_Witness ==
    /\ HasConsultation(db, get_patient_by_uuid(db, "u1"))
    /\ ConsultationOf(db, "u1").previous_tests = JList(<<>>)
    /\ ConsultationOf(db, "u1").wearable_data = JList(<<>>)
    /\ StepOf(db, "u1") = "diagnosis"
    /\ tests_post(db, "u1", "no", <<PdfA>>, "continue", TRUE).status = "303"
    /\ wearable_post(db, "u1", NoRow, "1").status = "303"

\* ------------------------------------------------------- reconciliation
\* update_consultation called directly and through its two handlers, on one
\* patient "u1" in each of the states a consultation can be in; "u2" names no
\* patient.
RecordOf(selected_diagnoses, selected_exams, ai_diag, ai_exam, timestamp) ==
    [patient |-> [diet |-> "vegan", symptoms |-> "cough"],
     meta |-> [timestamp |-> timestamp],
     ai_diag |-> "differential",
     selected_diagnoses |-> selected_diagnoses,
     selected_exams |-> selected_exams,
     evaluations |-> [ai_diag |-> ai_diag, ai_exam |-> ai_exam]]

ReconcileRecords ==
    {EmptyMap,
     [selected_diagnoses |-> <<"flu">>, evaluations |-> EmptyMap],
     RecordOf(<<"flu">>, <<"xray">>, [flu |-> DiagnosisRating],
              [xray |-> [ratings |-> ExamRating]], "2023-10-26"),
     RecordOf(<<"cold", "flu">>, <<>>, EmptyMap, EmptyMap, None),
     RecordOf(<<"cold", "cold">>, <<"xray">>, EmptyMap, EmptyMap, None),
     RecordOf(<<"flu", "cold", "flu">>, <<>>, [flu |-> DiagnosisRating], EmptyMap,
              "2023-10-26"),
     RecordOf(<<"flu">>, <<"blood">>, EmptyMap, EmptyMap, "yesterday"),
     RecordOf(<<"cold", "flu">>, <<>>, [flu |-> [safety |-> "safe"]], EmptyMap, None)}

ReconcileDiagnoses == {<<>>, <<"flu">>, <<"cold">>}
ReconcileExams == {<<>>, <<"xray">>, <<"blood">>}

\* A consultation taken through the wizard up to the diagnosis step.
ReadyStore ==
    LET a == start_new_consultation(EmptyStore, "u1", "en").db
        b == demographics_post(a, "u1", "30", "f", "70", "170").db
        c == lifestyle_post(b, "u1", "vegan", "8", "walks", "chess").db
        d == symptoms_post(c, "u1", "cough").db
        e == mental_post(d, "u1", "calm").db
        f == tests_post(e, "u1", "yes", <<PdfA>>, "upload", TRUE).db
        g == wearable_post(f, "u1", NoRow, "1").db
    IN diagnosis(g, "u1", "differential").db

ReconcileStores ==
    {ReadyStore} \cup
    {create_patient_and_consultation(EmptyStore,
        [meta |-> [uuid |-> "u1", lang |-> "en", timestamp |-> t],
         patient |-> [age |-> "30", gender |-> "f"]]).db :
            t \in {"2023-10-26", "yesterday"}}

InitReconcile ==
    /\ db \in ReconcileStores
    /\ last = NoRequest
    /\ sessions = NoSessions

NextReconcile ==
    \/ UpdateConsultation(UUIDs, ReconcileRecords)
    \/ DiagnosisPost(UUIDs, ReconcileDiagnoses, ReconcileDiagnoses)
    \/ ExamsPost(UUIDs, ReconcileExams, ReconcileExams)
    \/ GetOrCreateDiagnosis
    \/ GetOrCreateExam

SpecReconcile == InitReconcile /\ [][NextReconcile]_vars

\* No (consultation, diagnosis) pair and no (consultation, exam) pair with
\* more than one association row.
PairsUnique(store) ==
    /\ \A r \in BagToSet(store.consultation_diagnoses) :
        /\ CopiesIn(r, store.consultation_diagnoses) = 1
        /\ \A q \in BagToSet(store.consultation_diagnoses) :
            (q.consultation_id = r.consultation_id /\ q.diagnosis_id = r.diagnosis_id)
                => q = r
    /\ \A r \in BagToSet(store.consultation_exams) :
        /\ CopiesIn(r, store.consultation_exams) = 1
        /\ \A q \in BagToSet(store.consultation_exams) :
            (q.consultation_id = r.consultation_id /\ q.exam_id = r.exam_id)
                => q = r

\* The stores after a submission was applied once and twice in a row: the
\* step after the second equals the step after the first, and the pairs are
\* unique.
SameStepTwice(once, twice) ==
    /\ \A u \in UUIDs : StepOf(twice, u) = StepOf(once, u)
    /\ PairsUnique(twice)

\* C4: idempotent re-submission.  For every step handler with every form
\* input, and for update_consultation with every record, applying the same
\* submission twice in a row gives the same next step as applying it once,
\* and afterwards no (consultation, diagnosis) or (consultation, exam) pair
\* has more than one association row.
C4_IdempotentResubmission ==
    \A u \in UUIDs :
        /\ LET once == demographics_post(db, u, "30", "f", "70", "170").db
           IN SameStepTwice(once, demographics_post(once, u, "30", "f", "70", "170").db)
        /\ LET once == lifestyle_post(db, u, "vegan", "8", "walks", "chess").db
           IN SameStepTwice(once,
                            lifestyle_post(once, u, "vegan", "8", "walks", "chess").db)
        /\ LET once == symptoms_post(db, u, "cough").db
           IN SameStepTwice(once, symptoms_post(once, u, "cough").db)
        /\ LET once == mental_post(db, u, "calm").db
           IN SameStepTwice(once, mental_post(once, u, "calm").db)
        /\ \A has_reports \in {"yes", "no"}, reports \in Batches,
              action \in {"upload", "continue"}, commit_ok \in BOOLEAN :
            LET once == tests_post(db, u, has_reports, reports, action, commit_ok).db
            IN SameStepTwice(once,
                   tests_post(once, u, has_reports, reports, action, commit_ok).db)
        /\ \A file \in WearableFiles, skip \in {None, "1"} :
            LET once == wearable_post(db, u, file, skip).db
            IN SameStepTwice(once, wearable_post(once, u, file, skip).db)
        /\ \A selected \in ReconcileDiagnoses, custom \in ReconcileDiagnoses,
              rating \in {NoDiagnosisRating, DiagnosisRating} :
            LET once == diagnosis_post(db, u, selected, custom, rating).db
            IN SameStepTwice(once, diagnosis_post(once, u, selected, custom, rating).db)
        /\ \A selected \in ReconcileExams, custom \in ReconcileExams,
              rating \in {NoExamRating, ExamRating}, now \in Clock :
            LET once == exams_post(db, u, selected, custom, rating, now).db
            IN SameStepTwice(once, exams_post(once, u, selected, custom, rating, now).db)
        /\ \A record \in ReconcileRecords :
            LET once == update_consultation(db, u, record).db
            IN SameStepTwice(once, update_consultation(once, u, record).db)

\* A store that a record with selections was applied to, to which the same
\* record is applied again.
C4_Witness ==
    \E record \in ReconcileRecords :
        LET out == update_consultation(db, "u1", record)
        IN /\ out.returns = "patient"
           /\ out.db = db
           /\ HasConsultation(db, get_patient_by_uuid(db, "u1"))
           /\ selected_diagnoses_of(db, ConsultationOf(db, "u1").id) # {}
           /\ selected_exams_of(db, ConsultationOf(db, "u1").id) # {}

\* The names the association rows of a consultation point to.
DiagnosisNamesOf(store, cid) ==
    {d.name : d \in {d \in store.diagnoses :
        \E a \in selected_diagnoses_of(store, cid) : a.diagnosis_id = d.id}}

ExamNamesOf(store, cid) ==
    {e.name : e \in {e \in store.exams :
        \E a \in selected_exams_of(store, cid) : a.exam_id = e.id}}

\* C5: association rows are wholly replaced.  After every update_consultation
\* that returns the patient, whatever rows the store held before, the
\* consultation has no diagnosis row for a name outside the record's
\* selected_diagnoses, no exam row for a name outside its selected_exams, and
\* no pair has more than one row.
C5_RowsWhollyReplaced ==
    \A u \in UUIDs, record \in ReconcileRecords :
        LET out == update_consultation(db, u, record)
            cid == ConsultationOf(out.db, u).id
        IN out.returns = "patient" =>
            /\ DiagnosisNamesOf(out.db, cid)
                   \subseteq SeqToSet(Get(record, "selected_diagnoses", <<>>))
            /\ ExamNamesOf(out.db, cid)
                   \subseteq SeqToSet(Get(record, "selected_exams", <<>>))
            /\ PairsUnique(out.db)

\* The consultation holds a row for "cold" and a row for an exam, and a record
\* that selects neither is applied with success.
C5_Witness ==
    /\ HasConsultation(db, get_patient_by_uuid(db, "u1"))
    /\ "cold" \in DiagnosisNamesOf(db, ConsultationOf(db, "u1").id)
    /\ "blood" \in ExamNamesOf(db, ConsultationOf(db, "u1").id)
    /\ \E record \in ReconcileRecords :
        LET out == update_consultation(db, "u1", record)
        IN /\ out.returns = "patient"
           /\ "selected_diagnoses" \in DOMAIN record
           /\ "cold" \notin SeqToSet(record["selected_diagnoses"])
           /\ "blood" \notin SeqToSet(Get(record, "selected_exams", <<>>))
           /\ DiagnosisNamesOf(out.db, ConsultationOf(out.db, "u1").id) = {"flu"}

\* C6: update_consultation is atomic.  Whenever update_consultation raises,
\* the store it leaves is the store it was called on.
C6_AtomicUpdate ==
    \A u \in UUIDs, record \in ReconcileRecords :
        LET out == update_consultation(db, u, record)
        IN out.returns = "raised" => out.db = db

\* C7: update_consultation for an identifier no Patient has.  It returns
\* None (its not-found result) and leaves every table of the store as it was.
C7_UnknownPatientNotFound ==
    \A u \in UUIDs, record \in ReconcileRecords :
        LET out == update_consultation(db, u, record)
        IN get_patient_by_uuid(db, u) = NoRow =>
            /\ out.returns = "None"
            /\ out.db = db

\* The store holds a patient with association rows, "u2" names no patient,
\* and a record with selections is applied for "u2".
C7_Witness ==
    /\ get_patient_by_uuid(db, "u2") = NoRow
    /\ get_patient_by_uuid(db, "u1") # NoRow
    /\ db.consultation_diagnoses # EmptyBag
    /\ \E record \in ReconcileRecords :
        /\ "selected_diagnoses" \in DOMAIN record
        /\ update_consultation(db, "u2", record).returns = "None"

\* C8: a diagnosis or exams submission for an identifier no Patient has is
\* answered 404.
C8_UnknownPatientIs404 ==
    \A u \in UUIDs :
        get_patient_by_uuid(db, u) = NoRow =>
            /\ \A selected \in ReconcileDiagnoses, custom \in ReconcileDiagnoses,
                  rating \in {NoDiagnosisRating, DiagnosisRating} :
                diagnosis_post(db, u, selected, custom, rating).status = "404"
            /\ \A selected \in ReconcileExams, custom \in ReconcileExams,
                  rating \in {NoExamRating, ExamRating}, now \in Clock :
                exams_post(db, u, selected, custom, rating, now).status = "404"

\* At most one row of a reference table per name.
OneRowPerName(rows) == \A r, q \in rows : r.name = q.name => r = q

\* Two calls in a row with one name, each in a session of its own: both
\* succeed, the first returns a row of that name, the second returns the row
\* with the same key and leaves the store the first left.
SameRowTwice(first, second, table, name) ==
    /\ first.error = None
    /\ second.error = None
    /\ RowByName(first.work[table], name).name = name
    /\ RowByName(second.work[table], name).id = RowByName(first.work[table], name).id
    /\ Close(second) = Close(first)

\* C11: names are the natural key of Diagnosis and Exam.  In every reachable
\* state each table has at most one row per name, and get_or_create_diagnosis
\* (get_or_create_exam) called twice with one name returns a row of that name
\* the first time and the row with the same identifier the second time,
\* creating nothing then.
C11_NamesAreNaturalKey ==
    /\ OneRowPerName(db.diagnoses)
    /\ OneRowPerName(db.exams)
    /\ \A name \in DiagNames :
        SameRowTwice(get_or_create_diagnosis(Session(db), name),
                     get_or_create_diagnosis(
                         Session(Close(get_or_create_diagnosis(Session(db), name))), name),
                     "diagnoses", name)
    /\ \A name \in ExamNames :
        SameRowTwice(get_or_create_exam(Session(db), name),
                     get_or_create_exam(
                         Session(Close(get_or_create_exam(Session(db), name))), name),
                     "exams", name)

\* Both diagnoses and an exam exist, so that a call for "flu" finds its row,
\* while a call for "blood" has to create one.
C11_Witness ==
    /\ {d.name : d \in db.diagnoses} = {"flu", "cold"}
    /\ {e.name : e \in db.exams} = {"xray"}
    /\ Close(get_or_create_diagnosis(Session(db), "flu")) = db
    /\ Close(get_or_create_exam(Session(db), "blood")) # db

\* The keys of the consultations of a patient row.
ConsultationKeys(store, patient) ==
    {c.id : c \in {c \in store.consultations : c.patient_id = patient.id}}

\* C14: one consultation per patient.  In every reachable state each patient
\* has at most one consultation; update_consultation keeps the consultation
\* of a patient that has one, and when it succeeds for a patient that has
\* none the patient has exactly one afterwards; and a create leaves no
\* patient with two.
C14_OneConsultationPerPatient ==
    /\ \A p \in db.patients : Cardinality(ConsultationKeys(db, p)) <= 1
    /\ \A u \in UUIDs, record \in ReconcileRecords :
        LET out == update_consultation(db, u, record)
            patient == get_patient_by_uuid(db, u)
        IN patient # NoRow =>
            /\ ConsultationKeys(db, patient) # {}
                   => ConsultationKeys(out.db, patient) = ConsultationKeys(db, patient)
            /\ (ConsultationKeys(db, patient) = {} /\ out.returns = "patient")
                   => Cardinality(ConsultationKeys(out.db, patient)) = 1
    /\ \A patient_data \in CreateInputs :
        \A p \in create_patient_and_consultation(db, patient_data).db.patients :
            Cardinality(ConsultationKeys(
                create_patient_and_consultation(db, patient_data).db, p)) <= 1

\* The patient was created without a consultation and update_consultation
\* has opened one for it (lang unset, which no create leaves) with
\* association rows; further updates are applied to that consultation.
C14_Witness ==
    /\ get_patient_by_uuid(db, "u1") # NoRow
    /\ Cardinality(ConsultationKeys(db, get_patient_by_uuid(db, "u1"))) = 1
    /\ ConsultationOf(db, "u1").lang = None
    /\ selected_diagnoses_of(db, ConsultationOf(db, "u1").id) # {}

\* -------------------------------------------------------------- lifecycle
\* Patients created, given selections and deleted, two of them at most.
LifecycleRecords ==
    {RecordOf(<<"flu">>, <<"xray">>, [flu |-> DiagnosisRating],
              [xray |-> [ratings |-> ExamRating]], "2023-10-26")}

Init ==
    /\ db = EmptyStore
    /\ last = NoRequest
    /\ sessions = NoSessions

Next ==
    \/ StartNewConsultation
    \/ CreatePatientAndConsultation
    \/ UpdateConsultation(UUIDs, LifecycleRecords)
    \/ DeletePatient
    \/ DeletePatientPost

Spec == Init /\ [][Next]_vars

\* The keys of the consultations of the patient a uuid names.
ConsultationIdsOf(store, u) ==
    {c.id : c \in {c \in store.consultations :
        c.patient_id = get_patient_by_uuid(store, u).id}}

\* C9: deleting a patient cascades.  After delete_patient on an existing
\* patient, no Consultation that belonged to the patient and no association
\* row of such a consultation is left in the store.
C9_DeleteCascades ==
    \A u \in UUIDs :
        LET out == delete_patient(db, u)
            mine == ConsultationIdsOf(db, u)
        IN get_patient_by_uuid(db, u) # NoRow =>
            /\ \A c \in out.db.consultations : c.id \notin mine
            /\ \A a \in BagToSet(out.db.consultation_diagnoses) :
                   a.consultation_id \notin mine
            /\ \A a \in BagToSet(out.db.consultation_exams) :
                   a.consultation_id \notin mine

\* What the store holds of a patient: the row, the consultations and their
\* association rows.
HoldingsOf(store, u) ==
    LET ids == ConsultationIdsOf(store, u)
    IN [patient |-> get_patient_by_uuid(store, u),
        consultations |-> consultations_of(store, get_patient_by_uuid(store, u)),
        diagnoses |-> {a \in BagToSet(store.consultation_diagnoses) :
                          a.consultation_id \in ids},
        exams |-> {a \in BagToSet(store.consultation_exams) :
                      a.consultation_id \in ids}]

\* C10: the result of delete_patient.  It returns True exactly when a
\* patient with the uuid existed, and then get_patient_by_uuid with that uuid
\* finds nothing; otherwise it returns False and the store is unchanged; and
\* whatever it returns, every other patient keeps its row, its consultations
\* and their association rows.
C10_DeleteResult ==
    \A u \in UUIDs :
        LET out == delete_patient(db, u)
            existed == get_patient_by_uuid(db, u) # NoRow
        IN /\ out.returns = "True" <=> existed
           /\ out.returns \in {"True", "False"}
           /\ existed => get_patient_by_uuid(out.db, u) = NoRow
           /\ ~existed => out.db = db
           /\ \A other \in UUIDs \ {u} :
               get_patient_by_uuid(db, other) # NoRow =>
                   HoldingsOf(out.db, other) = HoldingsOf(db, other)

\* "u1" was deleted and left its consultation behind, while "u2" is a patient
\* with a consultation and association rows, about to be deleted.
C10_Witness ==
    /\ get_patient_by_uuid(db, "u1") = NoRow
    /\ \E c \in db.consultations : c.patient_id = NullId
    /\ get_patient_by_uuid(db, "u2") # NoRow
    /\ HoldingsOf(db, "u2").diagnoses # {}
    /\ delete_patient(db, "u2").returns = "True"
    /\ delete_patient(db, "u1").returns = "False"

\* C12: the Patient and its first Consultation are created together.  In
\* every reachable state each patient of the store has a consultation.
C12_CreatedTogether ==
    \A p \in db.patients : consultations_of(db, p) # <<>>

\* What a successful create leaves for its input: the patient found under
\* meta.uuid is a new row with the age and gender of the input and with one
\* consultation, whose timestamp is meta.timestamp parsed.
CreatedAsGiven(before, after, patient_data) ==
    LET patient == get_patient_by_uuid(after, patient_data.meta.uuid)
        timestamp_str == Get(patient_data.meta, "timestamp", None)
    IN /\ patient # NoRow
       /\ patient \notin before.patients
       /\ patient.uuid = patient_data.meta.uuid
       /\ patient.age = Get(patient_data.patient, "age", None)
       /\ patient.gender = Get(patient_data.patient, "gender", None)
       /\ Len(consultations_of(after, patient)) = 1
       /\ consultations_of(after, patient)[1].timestamp =
              (IF timestamp_str = None THEN None
               ELSE IF timestamp_str = "2023-10-26" THEN "2023-10-26T00:00:00"
               ELSE timestamp_str)
       /\ patient \in list_patients(after)
       /\ list_patients(after) = list_patients(before) \cup {patient}

\* C13: what create_patient_and_consultation returns and where it is found.
\* Every call that returns a patient leaves a new patient with the uuid, age
\* and gender of its input, with exactly one consultation whose timestamp is
\* the parsed meta.timestamp, found by get_patient_by_uuid and listed by
\* list_patients; and list_patients is the rows created and not deleted: a
\* create adds to it the created patient alone, delete_patient removes from
\* it the deleted patient alone, and update_consultation leaves it as it is.
C13_CreateReturnsPatient ==
    /\ \A patient_data \in CreateInputs :
        LET out == create_patient_and_consultation(db, patient_data)
        IN /\ (out.returns = "patient" /\ out.error = None)
                  => CreatedAsGiven(db, out.db, patient_data)
           /\ list_patients(out.db) \ list_patients(db)
                  \subseteq {get_patient_by_uuid(out.db, patient_data.meta.uuid)}
           /\ list_patients(db) \subseteq list_patients(out.db)
    /\ \A u \in UUIDs :
        /\ list_patients(delete_patient(db, u).db)
               = list_patients(db) \ {get_patient_by_uuid(db, u)}
        /\ \A record \in LifecycleRecords :
               list_patients(update_consultation(db, u, record).db) = list_patients(db)

\* Two patients were created, one of them with age, gender and a date as
\* timestamp; both are listed, and a third create is about to succeed or to
\* be refused for its uuid.
C13_Witness ==
    /\ Cardinality(list_patients(db)) = 2
    /\ \E p \in list_patients(db) :
        /\ p.age = "30"
        /\ Len(consultations_of(db, p)) = 1
        /\ consultations_of(db, p)[1].timestamp = "2023-10-26T00:00:00"
        /\ get_patient_by_uuid(db, p.uuid) = p

\* ------------------------------------------------------ the reports alone
\* Documents as process_uploaded_reports makes them.
DocA == [filename |-> FileName("a", "pdf"), data |-> "A"]
DocB == [filename |-> FileName("b", "png"), data |-> "B"]
DocStar == [filename |-> FileName("c", "pdf"), data |-> StarData]
DocRedacted == [filename |-> FileName("c", "pdf"), data |-> "REDACTED"]
Docs == {DocA, DocB, DocStar}
MaxDocs == 2
DocSeqs == UNION {[1..n -> Docs] : n \in 0..MaxDocs}

\* What else the column can hold: update_consultation sets it to whatever
\* the record gives under patient.previous_tests.
RawValues ==
    {JNone, EmptyText, Garbage, JDict,
     Text("json", JDict), Text("json", JNumber), Text("json", JNone),
     Text("json", JStr(json_dumps(JList(<<DocA, DocB>>)))),
     Text("json", JStr(json_dumps(JList(<<DocStar>>)))),
     Text("json", JStr(json_dumps(JDict))),
     Text("json", JStr(json_dumps(JStr(json_dumps(JList(<<DocA>>)))))),
     Text("json", JStr(Garbage)),
     Text("unquoted_stars", JList(<<DocRedacted>>)),
     Text("unquoted_stars", JDict)}

ReportRecords == {[patient |-> [previous_tests |-> raw]] : raw \in RawValues}

\* Files whose extraction fails, or gives something that is no mapping.
PdfFails == [filename |-> FileName("d", "pdf"), content_type |-> "application/pdf",
             extract |-> "MedicalReportExtractorError", data |-> "D"]
PdfBreaks == [filename |-> FileName("e", "pdf"), content_type |-> "application/pdf",
              extract |-> "Exception", data |-> "E"]
PdfList == [filename |-> FileName("f", "pdf"), content_type |-> "application/pdf",
            extract |-> "list", data |-> "F"]
PngB == [filename |-> FileName("B", "png"), content_type |-> "image/png",
         extract |-> "dict", data |-> "B"]
\* An allowed media type on a name without extension, and a media type that
\* is not allowed on a .pdf name.
PngBare == [filename |-> FileName("g", ""), content_type |-> "image/png",
            extract |-> "dict", data |-> "G"]
TextPdf == [filename |-> FileName("h", "pdf"), content_type |-> "text/plain",
            extract |-> "dict", data |-> "H"]
UploadFiles ==
    {PdfA, PdfAUpper, TxtB, Unnamed, PdfFails, PdfBreaks, PdfList, PngB, PngBare, TextPdf}
MaxFiles == 2
UploadBatches == UNION {[1..n -> UploadFiles] : n \in 1..MaxFiles}

\* seen_filenames as tests_post builds it from the loaded documents.
SeenFilenames(fhir_reports) ==
    {Lower(fhir_reports[i].filename) : i \in 1..Len(fhir_reports)}

InitReports ==
    /\ db = start_new_consultation(EmptyStore, "u1", "en").db
    /\ last = NoRequest
    /\ sessions = NoSessions

Answer(op, result) ==
    /\ db' = db
    /\ last' = [op |-> op, uuid |-> "u1", status |-> result]
    /\ UNCHANGED sessions

SaveFhirReports ==
    \E reports \in DocSeqs, commit_ok \in BOOLEAN :
        Serve(save_fhir_reports(db, ConsultationOf(db, "u1"), reports, FALSE, commit_ok))

SaveFhirReportsText ==
    \E reports \in DocSeqs, commit_ok \in BOOLEAN :
        Serve(save_fhir_reports_text(db, ConsultationOf(db, "u1"), reports, commit_ok))

LoadFhirReports ==
    Answer("load_fhir_reports", load_fhir_reports(ConsultationOf(db, "u1")))

LoadFhirReportsText ==
    Answer("load_fhir_reports_text", load_fhir_reports_text(ConsultationOf(db, "u1")))

ProcessUploadedReports ==
    \E reports \in UploadBatches :
        Answer("process_uploaded_reports",
               process_uploaded_reports(reports,
                   SeenFilenames(load_fhir_reports(ConsultationOf(db, "u1")))))

NextReports ==
    \/ SaveFhirReports
    \/ SaveFhirReportsText
    \/ UpdateConsultation({"u1"}, ReportRecords)
    \/ LoadFhirReports
    \/ LoadFhirReportsText
    \/ ProcessUploadedReports

SpecReports == InitReports /\ [][NextReports]_vars

\* The documents a load gives once a save of `reports` has gone through.
SavedThenLoaded(reports) ==
    load_fhir_reports(
        ConsultationOf(save_fhir_reports(db, ConsultationOf(db, "u1"), reports,
                                         FALSE, TRUE).db, "u1"))

SavedThenLoadedText(reports) ==
    load_fhir_reports_text(
        ConsultationOf(save_fhir_reports_text(db, ConsultationOf(db, "u1"), reports,
                                              TRUE).db, "u1"))

\* C15: round trip of previous-tests documents.  For every sequence of
\* documents, the empty one and those of two documents included,
\* save_fhir_reports followed by load_fhir_reports on the same consultation
\* gives the same documents in the same order, whichever of the two
\* implementations of the pair is used.
C15_RoundTrip ==
    \A reports \in DocSeqs :
        /\ SavedThenLoaded(reports) = reports
        /\ SavedThenLoadedText(reports) = reports

\* The JSON value a stored text spells, bare asterisks read as a quoted word.
Spelled(raw) ==
    IF raw.form \in {"json", "unquoted_stars"} THEN raw.value ELSE JSONDecodeError

\* The documents a stored text holds: those of the list it spells, or of the
\* list spelled by the string it spells; none when it spells neither.
StoredDocuments(raw) == ListOrEmpty(DecodedTwice(Spelled(raw)))

\* C16: load_fhir_reports is fail-soft.  On the structured column it gives
\* the empty list for None, for the empty list and for any value that is no
\* list, and the stored list otherwise; on the text column it gives the
\* empty list for None, for '' and for text that spells no list, and the
\* documents the stored text spells otherwise.
C16_LoadFailSoft ==
    LET consultation == ConsultationOf(db, "u1")
        raw == consultation.previous_tests
    IN /\ load_fhir_reports(consultation)
            = (IF raw.tag = "list" THEN raw.items ELSE <<>>)
       /\ raw.tag \in {"None", "text"}
            => load_fhir_reports_text(consultation)
                 = (IF raw \in {JNone, EmptyText} THEN <<>> ELSE StoredDocuments(raw))

\* What a save that was handed `given` must leave: the column holding
\* `stored` and no error when the commit goes through, the store as it was
\* and the save-failure error when it does not.
SavedAsGiven(out, stored, commit_ok) ==
    IF commit_ok
    THEN out.error = None /\ ConsultationOf(out.db, "u1").previous_tests = stored
    ELSE out.error = "Failed to save reports" /\ out.db = db

\* C17: save_fhir_reports replaces the stored previous_tests wholesale with
\* the given sequence and commits; when the commit fails it raises 'Failed to
\* save reports' and the persisted value is the one from before the call.
\* The given sequence is any sequence of documents, or, as tests_post gives
\* it, the list load_fhir_reports returned with documents appended to it.
C17_SaveReplaces ==
    LET consultation == ConsultationOf(db, "u1")
        loaded == load_fhir_reports(consultation)
    IN \A reports \in DocSeqs, commit_ok \in BOOLEAN :
          /\ SavedAsGiven(save_fhir_reports(db, consultation, reports, FALSE, commit_ok),
                          JList(reports), commit_ok)
          /\ SavedAsGiven(save_fhir_reports_text(db, consultation, reports, commit_ok),
                          json_dumps(JList(reports)), commit_ok)
          /\ LoadedIsStoredObject(consultation)
               => SavedAsGiven(save_fhir_reports(db, consultation, loaded \o reports,
                                                 TRUE, commit_ok),
                               JList(loaded \o reports), commit_ok)

\* seen_filenames when tests_post takes up a batch for patient u1.
SeenBefore == SeenFilenames(load_fhir_reports(ConsultationOf(db, "u1")))

\* A file that is processed to a document when it comes first in a batch.
Accepted(report) ==
    LET out == process_uploaded_reports(<<report>>, SeenBefore)
    IN out.error = None /\ Len(out.reports) = 1

\* A batch of two files, the first accepted, the second named as the first
\* but for the case of its letters.
DuplicateInBatch(reports) ==
    /\ Len(reports) = 2
    /\ Accepted(reports[1])
    /\ Lower(reports[2].filename) = Lower(reports[1].filename)

\* C18: a file named, case-insensitively, as an earlier file of the same
\* batch is rejected with 'File already uploaded', and the first file of the
\* batch is still accepted: its extracted document is in the result.
C18_DuplicateRejectedFirstKept ==
    \A reports \in UploadBatches :
        DuplicateInBatch(reports)
          => LET out == process_uploaded_reports(reports, SeenBefore)
             IN /\ out.error = "File already uploaded"
                /\ out.reports = process_uploaded_reports(<<reports[1]>>, SeenBefore).reports

\* The files that carry a name, and sets of names already seen.
NamedFiles == {report \in UploadFiles : report.filename # NoFileName}
SeenSets == {{}, {FileName("a", "pdf")}, {FileName("b", "png"), FileName("h", "pdf")}}

\* Whether the lowercased name ends with "." and an allowed extension.
HasAllowedExtension(report) == Lower(report.filename).ext \in AllowedExtensions

\* C19: validate_report_file applies a permissive OR policy.  A file not
\* already seen is accepted if its declared media type is allowed or its
\* lowercased name ends with an allowed extension, and is rejected with the
\* allow-list reason only when neither holds.
C19_PermissiveOrPolicy ==
    \A report \in NamedFiles, seen_filenames \in SeenSets \cup {SeenBefore} :
        Lower(report.filename) \notin seen_filenames
          => LET checked == validate_report_file(report, seen_filenames)
             IN IF report.content_type \in AllowedMimetypes \/ HasAllowedExtension(report)
                THEN checked = [valid |-> TRUE, error |-> None]
                ELSE checked = [valid |-> FALSE,
                                error |-> "Only PDF, PNG, JPEG, JPG files allowed"]

\* A batch was processed in which the file without media type but with a
\* .PDF name, and the file with an allowed media type but no extension,
\* were both accepted, and a batch with the .txt file was rejected.
C19_Witness ==
    /\ last.op = "process_uploaded_reports"
    /\ last.status.error = None
    /\ Len(last.status.reports) = 2
    /\ last.status.reports[1].filename = PdfAUpper.filename
    /\ last.status.reports[2].filename = PngBare.filename
    /\ PdfAUpper.content_type \notin AllowedMimetypes
    /\ ~HasAllowedExtension(PngBare)
    /\ ~validate_report_file(TxtB, SeenBefore).valid

\* The results process_uploaded_reports hands back with an error.
ProcessErrors ==
    {"File already uploaded", "Only PDF, PNG, JPEG, JPG files allowed",
     "Failed to extract report data", "Failed to process report",
     "Error processing report"}

\* What the caller is told when the extraction of a file ends this way.
ExtractionError(extract) ==
    IF extract = "MedicalReportExtractorError" THEN "Failed to extract report data"
    ELSE IF extract = "Exception" THEN "Error processing report"
    ELSE "Failed to process report"

\* File i of the batch is the first to fail, and fails in extraction: the
\* files before it were processed, it carries a name and passes validation,
\* and the extractor does not give a mapping for it.
FailsInExtraction(reports, seen_filenames, i) ==
    LET before == process_uploaded_reports(SubSeq(reports, 1, i - 1), seen_filenames)
    IN /\ before.error = None
       /\ reports[i].filename # NoFileName
       /\ validate_report_file(reports[i], before.seen).valid
       /\ reports[i].extract # "dict"

\* C20: process_uploaded_reports never propagates an exception.  Every
\* batch ends in a result; a failure of the extractor is reported as 'Failed
\* to extract report data', a result of the extractor that is not a mapping
\* as 'Failed to process report', any other error as 'Error processing
\* report'; and whenever an error is reported no document is returned.
C20_NeverPropagates ==
    \A reports \in UploadBatches, seen_filenames \in SeenSets \cup {SeenBefore} :
        LET out == process_uploaded_reports(reports, seen_filenames)
        IN /\ out.error \in ProcessErrors \cup {None}
           /\ out.error # None => out.reports = <<>>
           /\ \A i \in 1..Len(reports) :
                 FailsInExtraction(reports, seen_filenames, i)
                   => out.error = ExtractionError(reports[i].extract)

\* A batch was processed whose first file gave a document and whose second
\* file failed in the extractor: both files were closed, the error is the
\* generic one and no document came back.
C20_Witness ==
    /\ last.op = "process_uploaded_reports"
    /\ last.status.error = "Failed to extract report data"
    /\ last.status.closed = {PdfA.filename, PdfFails.filename}
    /\ last.status.reports = <<>>
    /\ FailsInExtraction(<<PdfA, PdfFails>>, {}, 2)
    /\ FailsInExtraction(<<PdfList>>, {}, 1)
    /\ FailsInExtraction(<<PdfA, PdfBreaks>>, {}, 2)

\* C21: resources are released on every exit path.  Every file handed to
\* process_uploaded_reports is closed by the time it returns, whether the
\* batch succeeds, is rejected partway or fails: the files after a rejected
\* one and the files with an empty filename included.
C21_EveryFileClosed ==
    \A reports \in UploadBatches :
        LET out == process_uploaded_reports(reports, SeenBefore)
        IN \A i \in 1..Len(reports) : reports[i].filename \in out.closed

\* ------------------------------------------------- ratings of an update
\* The rating entry the record gives for a selected name: {} when the
\* evaluations mapping, or its `kind` mapping, has none.
RatingEntry(record, kind, name) ==
    Get(Get(Get(record, "evaluations", EmptyMap), kind, EmptyMap), name, EmptyMap)

\* The selected names of a record that have no rating entry.
Unrated(record, selection, kind) ==
    {name \in SeqToSet(Get(record, selection, <<>>)) :
        DOMAIN RatingEntry(record, kind, name) = {}}

\* C22: for a selected name without a rating entry update_consultation skips
\* association creation.  After every update_consultation that returns the
\* patient, the consultation has no diagnosis row for a name of
\* selected_diagnoses without entry in evaluations.ai_diag, and no exam row
\* for a name of selected_exams without entry in evaluations.ai_exam.
C22_NoRatingNoRow ==
    \A u \in UUIDs, record \in ReconcileRecords :
        LET out == update_consultation(db, u, record)
            cid == ConsultationOf(out.db, u).id
        IN out.returns = "patient" =>
            /\ DiagnosisNamesOf(out.db, cid)
                 \cap Unrated(record, "selected_diagnoses", "ai_diag") = {}
            /\ ExamNamesOf(out.db, cid)
                 \cap Unrated(record, "selected_exams", "ai_exam") = {}

\* Records whose rating entries name some of the rating fields only, flat
\* and under 'ratings', beside the records the reconciliation submits.
PartialRecords ==
    {RecordOf(<<"flu", "cold">>, <<"xray", "blood">>,
              [flu |-> [accuracy |-> "5"],
               cold |-> [ratings |-> [comments |-> "ok", coherence |-> "2"]]],
              [xray |-> [safety |-> "safe"],
               blood |-> [ratings |-> [safety |-> "risky", accuracy |-> "1"]]],
              None),
     RecordOf(<<"cold">>, <<"xray">>,
              [cold |-> [ratings |-> [accuracy |-> "5"], accuracy |-> "1"]],
              [xray |-> ExamRating], "2023-10-26")}

RatingRecords == ReconcileRecords \cup PartialRecords

\* The selected names of a record that have a rating entry.
Rated(record, selection, kind) ==
    SeqToSet(Get(record, selection, <<>>)) \ Unrated(record, selection, kind)

\* The mapping the rating fields of an entry are read from.
RatingsGiven(entry) == IF "ratings" \in DOMAIN entry THEN entry["ratings"] ELSE entry

\* The row carries each rating field the entry gives and NULL for the rest.
CarriesRatings(row, entry, columns) ==
    \A column \in columns : row[column] = Get(RatingsGiven(entry), column, None)

\* C23: the association row of a rated name carries exactly the rating
\* fields of its entry.  After every update_consultation that returns the
\* patient, each name of selected_diagnoses (selected_exams) with a rating
\* entry has one association row, whose accuracy, relevance, usefulness,
\* coherence and comments (and safety, for an exam) are the values of the
\* entry's 'ratings' sub-mapping when the entry has that key and of the entry
\* itself otherwise, NULL where the mapping has no such field.
C23_RowCarriesGivenRatings ==
    \A u \in UUIDs, record \in RatingRecords :
        LET out == update_consultation(db, u, record)
            cid == ConsultationOf(out.db, u).id
        IN out.returns = "patient" =>
            /\ \A name \in Rated(record, "selected_diagnoses", "ai_diag") :
                 /\ \E row \in selected_diagnoses_of(out.db, cid) :
                       row.diagnosis_id = RowByName(out.db.diagnoses, name).id
                 /\ \A row \in selected_diagnoses_of(out.db, cid) :
                       row.diagnosis_id = RowByName(out.db.diagnoses, name).id
                         => CarriesRatings(row, RatingEntry(record, "ai_diag", name),
                                           DiagnosisRatingColumns)
            /\ \A name \in Rated(record, "selected_exams", "ai_exam") :
                 /\ \E row \in selected_exams_of(out.db, cid) :
                       row.exam_id = RowByName(out.db.exams, name).id
                 /\ \A row \in selected_exams_of(out.db, cid) :
                       row.exam_id = RowByName(out.db.exams, name).id
                         => CarriesRatings(row, RatingEntry(record, "ai_exam", name),
                                           ExamRatingColumns)

\* The consultation of u1 holds the rows an update with a flat diagnosis
\* entry and a wrapped exam entry left, and an update with partial entries
\* goes through on it, leaving a row for "flu" with accuracy alone.
C23_Witness ==
    /\ HasConsultation(db, get_patient_by_uuid(db, "u1"))
    /\ \E row \in selected_diagnoses_of(db, ConsultationOf(db, "u1").id) :
          row.accuracy = DiagnosisRating.accuracy /\ row.comments = DiagnosisRating.comments
    /\ \E row \in selected_exams_of(db, ConsultationOf(db, "u1").id) :
          row.safety = ExamRating.safety
    /\ \E record \in PartialRecords :
        LET out == update_consultation(db, "u1", record)
        IN /\ out.returns = "patient"
           /\ \E row \in selected_diagnoses_of(out.db, ConsultationOf(out.db, "u1").id) :
                 row.accuracy = "5" /\ row.relevance = None /\ row.comments = None

\* C24: update_consultation resolves or creates the reference row of each
\* selected name.  After every update_consultation that returns the patient
\* there is a Diagnosis row for each name of the record's selected_diagnoses
\* and an Exam row for each name of its selected_exams, whether or not the
\* record's evaluations mapping has the ai_diag (ai_exam) key.
C24_ReferenceRowsExist ==
    \A u \in UUIDs, record \in ReconcileRecords :
        LET out == update_consultation(db, u, record)
        IN out.returns = "patient" =>
            /\ \A name \in SeqToSet(Get(record, "selected_diagnoses", <<>>)) :
                  RowByName(out.db.diagnoses, name) # NoRow
            /\ \A name \in SeqToSet(Get(record, "selected_exams", <<>>)) :
                  RowByName(out.db.exams, name) # NoRow

\* ------------------------------------------------- fields of an update
\* Records whose patient mapping names some Consultation fields (one of them
\* with None), the Patient's age and gender, and a key nothing has.
FieldRecords ==
    {[patient |-> [diet |-> None, weight_kg |-> "80", age |-> "99", gender |-> "m",
                   nickname |-> "x"]],
     [patient |-> [symptoms |-> "fever", lang |-> "pt", age |-> None]],
     [patient |-> EmptyMap, meta |-> [timestamp |-> "2023-10-26"]],
     EmptyMap}

\* The columns update_consultation assigns whatever the patient mapping
\* holds, and the key the database assigns.
AssignedRegardless == {"id", "timestamp", "ai_diag_raw", "ai_exam_raw"}

\* The consultation update_consultation works on: the patient's last one,
\* or a new one.
ConsultationBefore(store, u) ==
    ConsultationToUpdate(consultations_of(store, get_patient_by_uuid(store, u)),
                         get_patient_by_uuid(store, u))

\* C25: update_consultation overwrites the Consultation fields the patient
\* mapping names and no other.  After every update_consultation that returns
\* the patient, each Consultation field that is a key of the record's
\* patient mapping holds the given value, None included; each other field
\* but timestamp and the raw AI payloads holds what it held; keys that are
\* no Consultation field change nothing; and the Patient row, its age and
\* gender, is as it was.
C25_FieldsOverwritten ==
    \A u \in UUIDs, record \in FieldRecords \cup ReconcileRecords :
        LET out == update_consultation(db, u, record)
            before == ConsultationBefore(db, u)
            after == ConsultationOf(out.db, u)
            consultation_data == Get(record, "patient", EmptyMap)
        IN out.returns = "patient" =>
            /\ \A k \in ConsultationColumns \ AssignedRegardless :
                  after[k] = IF k \in DOMAIN consultation_data
                             THEN consultation_data[k] ELSE before[k]
            /\ get_patient_by_uuid(out.db, u) = get_patient_by_uuid(db, u)
            /\ out.db.patients = db.patients

\* The consultation of u1, updated before, has a diet, a weight and
\* symptoms, its patient an age, and an update whose patient mapping gives
\* diet None, another weight and another age goes through: diet is None, the
\* symptoms and the age are the old ones.
C25_Witness ==
    /\ HasConsultation(db, get_patient_by_uuid(db, "u1"))
    /\ ConsultationOf(db, "u1").diet = "vegan"
    /\ ConsultationOf(db, "u1").weight_kg = "70"
    /\ ConsultationOf(db, "u1").symptoms = "cough"
    /\ get_patient_by_uuid(db, "u1").age = "30"
    /\ selected_diagnoses_of(db, ConsultationOf(db, "u1").id) # {}
    /\ \E record \in FieldRecords :
        LET out == update_consultation(db, "u1", record)
        IN /\ out.returns = "patient"
           /\ Get(record, "patient", EmptyMap) # EmptyMap
           /\ record["patient"]["age"] = "99"
           /\ ConsultationOf(out.db, "u1").diet = None
           /\ ConsultationOf(out.db, "u1").weight_kg = "80"
           /\ ConsultationOf(out.db, "u1").symptoms = "cough"
           /\ get_patient_by_uuid(out.db, "u1").age = "30"

\* Records with and without meta, timestamp and raw AI payloads.
TimestampRecords ==
    {[meta |-> [timestamp |-> "2023-10-26T10:00:00"], ai_diag |-> "differential",
      ai_exam |-> "suggestions"],
     [meta |-> [timestamp |-> "2023-10-26"], ai_exam |-> "suggestions"],
     [meta |-> [timestamp |-> ""], ai_diag |-> "differential"],
     [meta |-> [timestamp |-> None]],
     [meta |-> EmptyMap]}

\* The datetime an ISO-8601 text of the model stands for, as isoformat()
\* writes it.
DateTimeOf(text) == IF text = "2023-10-26" THEN "2023-10-26T00:00:00" ELSE text

\* meta.timestamp of a record, None when meta or the key is missing.
MetaTimestamp(record) == Get(Get(record, "meta", EmptyMap), "timestamp", None)

\* C26: update_consultation sets the timestamp and the raw AI payloads from
\* the record alone.  After every update_consultation that returns the
\* patient, the consultation's timestamp is the datetime meta.timestamp
\* spells when that is a non-empty string and None when it is absent, None or
\* empty, whatever the timestamp was and whatever the time is; ai_diag_raw
\* and ai_exam_raw are the record's ai_diag and ai_exam, None for a record
\* without them.
C26_TimestampAndPayloads ==
    \A u \in UUIDs, record \in TimestampRecords \cup ReconcileRecords :
        LET out == update_consultation(db, u, record)
            after == ConsultationOf(out.db, u)
        IN out.returns = "patient" =>
            /\ after.timestamp = IF MetaTimestamp(record) \in {None, ""} THEN None
                                 ELSE DateTimeOf(MetaTimestamp(record))
            /\ after.ai_diag_raw = Get(record, "ai_diag", None)
            /\ after.ai_exam_raw = Get(record, "ai_exam", None)

\* The consultation of u1, updated before, has a timestamp and a raw
\* diagnosis payload; an update without meta.timestamp and payloads goes
\* through and leaves all three None, and one with a date leaves midnight of
\* that date.
C26_Witness ==
    /\ HasConsultation(db, get_patient_by_uuid(db, "u1"))
    /\ ConsultationOf(db, "u1").timestamp = "2023-10-26T00:00:00"
    /\ ConsultationOf(db, "u1").ai_diag_raw = "differential"
    /\ selected_diagnoses_of(db, ConsultationOf(db, "u1").id) # {}
    /\ LET out == update_consultation(db, "u1", [meta |-> EmptyMap])
       IN /\ out.returns = "patient"
          /\ ConsultationOf(out.db, "u1").timestamp = None
          /\ ConsultationOf(out.db, "u1").ai_diag_raw = None
          /\ ConsultationOf(out.db, "u1").ai_exam_raw = None
    /\ LET out == update_consultation(db, "u1",
                      [meta |-> [timestamp |-> "2023-10-26"], ai_exam |-> "suggestions"])
       IN /\ out.returns = "patient"
          /\ ConsultationOf(out.db, "u1").timestamp = "2023-10-26T00:00:00"
          /\ ConsultationOf(out.db, "u1").ai_exam_raw = "suggestions"

\* ------------------------------------------------- files remembered
IsNamed(report) == report.filename # NoFileName

\* The document an accepted file is made into.
DocumentOf(report) == [filename |-> report.filename, data |-> report.data]

\* The documents of the named files of a batch, in upload order.
DocumentsOf(reports) ==
    LET named == SelectSeq(reports, IsNamed)
    IN [i \in 1..Len(named) |-> DocumentOf(named[i])]

\* seen_filenames as the next request of patient u1 builds it, once
\* tests_post has served the upload of a batch.
SeenAfterUpload(reports) ==
    SeenFilenames(load_fhir_reports(
        ConsultationOf(tests_post(db, "u1", "yes", reports, "upload", TRUE).db, "u1")))

\* C27: an accepted file is tagged, kept in order and remembered.  When
\* process_uploaded_reports accepts the files of a batch, the documents it
\* returns are those of the named files in upload order, each under the
\* file's original filename; the lowercased names are added to the seen set;
\* and a file named as one of them in any letter case is rejected as already
\* uploaded, when it follows in the same batch and when it comes in the next
\* upload request of the patient.
C27_AcceptedFileRemembered ==
    \A reports \in UploadBatches :
        LET out == process_uploaded_reports(reports, SeenBefore)
        IN out.error = None =>
            /\ out.reports = DocumentsOf(reports)
            /\ out.seen = SeenBefore \cup {Lower(reports[i].filename) :
                                             i \in {j \in 1..Len(reports) : IsNamed(reports[j])}}
            /\ \A again \in NamedFiles :
                  (\E i \in 1..Len(reports) :
                       Lower(reports[i].filename) = Lower(again.filename))
                    => /\ process_uploaded_reports(reports \o <<again>>, SeenBefore).error
                            = "File already uploaded"
                       /\ process_uploaded_reports(<<again>>, SeenAfterUpload(reports)).error
                            = "File already uploaded"

\* C28: the text variant's load_fhir_reports unwraps double-encoded content.
\* Whenever the stored text is the JSON of a string, load_fhir_reports gives
\* the documents of the list that string encodes when it encodes a list, and
\* the empty list when it encodes anything else or nothing.
C28_DoubleEncodedUnwrapped ==
    LET consultation == ConsultationOf(db, "u1")
        raw == consultation.previous_tests
    IN (raw.tag = "text" /\ raw.form = "json" /\ raw.value.tag = "str")
         => load_fhir_reports_text(consultation)
              = (IF raw.value.text.form = "json" /\ raw.value.text.value.tag = "list"
                 THEN raw.value.text.value.items
                 ELSE <<>>)

\* ----------------------------------------------------- the wizard in order
\* One patient taken through the wizard: at each point the form of the step
\* the gatekeeper answers is submitted, with success, and the gatekeeper is
\* asked again by the redirect.
ProgressAges == {"30", "0"}
ProgressBatches == {<<PdfA>>, <<PdfA, PngB>>, <<Unnamed>>}
ProgressNames == {<<"flu">>, <<"cold">>, <<"flu", "cold">>}
ProgressExams == {<<"xray">>, <<"blood">>}

InitProgress ==
    /\ db = start_new_consultation(EmptyStore, "u1", "en").db
    /\ last = NoRequest
    /\ sessions = NoSessions

\* The form of `step` is the one to submit, its handler answered `status`,
\* and the redirect asks for the next step.
Submitted(step, out, status) ==
    /\ StepOf(db, "u1") = step
    /\ \E response \in {out} :
           /\ response.status = status
           /\ db' = response.db
           /\ \E next \in {StepOf(response.db, "u1")} :
                  last' = [op |-> "_get_next_step", uuid |-> "u1", status |-> next]
           /\ UNCHANGED sessions

SubmitDemographics ==
    \E age \in ProgressAges :
        Submitted("demographics", demographics_post(db, "u1", age, "f", "70", "170"), "303")

SubmitLifestyle ==
    Submitted("lifestyle", lifestyle_post(db, "u1", "vegan", "8", "walks", "chess"), "303")

SubmitSymptoms == Submitted("symptoms", symptoms_post(db, "u1", "cough"), "303")

SubmitMental == Submitted("mental", mental_post(db, "u1", "calm"), "303")

SubmitNoTests ==
    Submitted("tests", tests_post(db, "u1", "no", <<>>, "upload", TRUE), "303")

SubmitTests ==
    \E reports \in ProgressBatches :
        /\ process_uploaded_reports(reports, SeenBefore).error = None
        /\ Submitted("tests", tests_post(db, "u1", "yes", reports, "upload", TRUE), "200")

SubmitWearable ==
    \E file \in WearableFiles, skip \in {None, "1"} :
        Submitted("wearable", wearable_post(db, "u1", file, skip), "303")

SubmitDiagnosis ==
    \E selected \in ProgressNames \cup {<<>>}, custom \in ProgressNames \cup {<<>>} :
        /\ selected \o custom # <<>>
        /\ Submitted("diagnosis",
                     diagnosis_post(db, "u1", selected, custom, DiagnosisRating), "303")

SubmitExams ==
    \E selected \in ProgressExams \cup {<<>>}, custom \in ProgressExams \cup {<<>>},
       now \in Clock :
        /\ selected \o custom # <<>>
        /\ Submitted("exams", exams_post(db, "u1", selected, custom, ExamRating, now), "303")

NextProgress ==
    \/ SubmitDemographics
    \/ SubmitLifestyle
    \/ SubmitSymptoms
    \/ SubmitMental
    \/ SubmitNoTests
    \/ SubmitTests
    \/ SubmitWearable
    \/ SubmitDiagnosis
    \/ SubmitExams

\* The wizard has nothing more to ask of the patient.
Complete == StepOf(db, "u1") = "complete"

\* The physician goes on submitting as long as a form is asked for: again and
\* again a form is submitted with success, or the wizard is complete.  This
\* is WF_vars(NextProgress) with ENABLED <<NextProgress>>_vars written as
\* ~Complete (NotStuck below is the half of that equivalence the fairness
\* leans on).
SpecProgress ==
    /\ InitProgress
    /\ [][NextProgress]_vars
    /\ ([]<>Complete \/ []<><<NextProgress>>_vars)

\* The step that follows a step in the wizard.
StepAfter(step) ==
    IF step = "exams" THEN "complete"
    ELSE StepOrder[1 + CHOOSE i \in 1..7 : StepOrder[i] = step]

\* The form of the current step has a submission its handler accepts.
NotStuck ==
    LET step == StepOf(db, "u1")
    IN \/ step = "complete"
       \/ /\ step = "demographics"
          /\ demographics_post(db, "u1", "30", "f", "70", "170").status = "303"
       \/ /\ step = "lifestyle"
          /\ lifestyle_post(db, "u1", "vegan", "8", "walks", "chess").status = "303"
       \/ /\ step = "symptoms"
          /\ symptoms_post(db, "u1", "cough").status = "303"
       \/ /\ step = "mental"
          /\ mental_post(db, "u1", "calm").status = "303"
       \/ /\ step = "tests"
          /\ tests_post(db, "u1", "no", <<>>, "upload", TRUE).status = "303"
       \/ /\ step = "wearable"
          /\ \E file \in WearableFiles : wearable_post(db, "u1", file, "1").status = "303"
       \/ /\ step = "diagnosis"
          /\ diagnosis_post(db, "u1", <<"flu">>, <<>>, DiagnosisRating).status = "303"
       \/ /\ step = "exams"
          /\ \E now \in Clock :
                 exams_post(db, "u1", <<"xray">>, <<>>, ExamRating, now).status = "303"

Submissions(store, u, selections, exam_selections) ==
    {demographics_post(store, u, "31", "m", "71", "171"),
     lifestyle_post(store, u, "keto", "7", "runs", "go"),
     symptoms_post(store, u, "fever"),
     mental_post(store, u, "tired")}
    \cup {tests_post(store, u, has_reports, reports, action, commit_ok) :
            has_reports \in {"yes", "no"}, reports \in Batches,
            action \in {"upload", "continue"}, commit_ok \in BOOLEAN}
    \cup {wearable_post(store, u, file, skip) :
            file \in WearableFiles, skip \in {None, "1"}}
    \cup {diagnosis_post(store, u, selected, custom, DiagnosisRating) :
            selected \in selections, custom \in selections}
    \cup {exams_post(store, u, selected, custom, ExamRating, now) :
            selected \in exam_selections, custom \in exam_selections, now \in Clock}

\* What _get_next_step answers for the patient after each of the submissions
\* that was accepted, that is, not answered with a server error.
StepsAfterSubmission(store, u, selections, exam_selections) ==
    {StepOf(out.db, u) :
        out \in {o \in Submissions(store, u, selections, exam_selections) :
                    o.status # "500"}}

\* C30: completion is stable.  Once _get_next_step answers "complete" for a
\* patient, it answers "complete" after any further submission to a step
\* handler for that patient, a diagnosis or exams submission with no
\* selection included.
C30_CompletionStable ==
    \A u \in UUIDs :
        StepOf(db, u) = "complete" =>
            StepsAfterSubmission(db, u, WizardDiagnoses, WizardExams) = {"complete"}

\* The same with at least one diagnosis and one exam selected in the last two
\* forms.
CompletionStableWithSelections ==
    \A u \in UUIDs :
        StepOf(db, u) = "complete" =>
            StepsAfterSubmission(db, u, {<<"flu">>, <<"cold">>}, {<<"xray">>, <<"blood">>})
                = {"complete"}

\* ------------------------------------------- the other half of a selection
\* The association rows with the comments de-identified.
Deidentified(rows) == {[a EXCEPT !.comments = Redact(@)] : a \in rows}

\* The diagnosis (exam) association rows of the last consultation of a patient.
DiagnosisRowsOf(store, u) == selected_diagnoses_of(store, ConsultationOf(store, u).id)
ExamRowsOf(store, u) == selected_exams_of(store, ConsultationOf(store, u).id)

\* C31: an exams submission leaves the diagnosis selections and their ratings
\* as they were.  For every patient with a consultation and every exams form,
\* the diagnosis association rows of the consultation after exams_post are the
\* rows before it, with the same accuracy, relevance, usefulness, coherence and
\* comments, up to the de-identification of the comments (the rows are
\* compared with their comments de-identified), whatever the answer.
C31_ExamsKeepDiagnoses ==
    \A u \in UUIDs :
        HasConsultation(db, get_patient_by_uuid(db, u)) =>
            \A selected \in WizardExams, custom \in WizardExams,
               rating \in {NoExamRating, ExamRating}, now \in Clock :
                Deidentified(DiagnosisRowsOf(
                    exams_post(db, u, selected, custom, rating, now).db, u))
                    = Deidentified(DiagnosisRowsOf(db, u))

\* A rated diagnosis was kept, comments de-identified, by an exams submission
\* that selected an exam.
C31_Witness ==
    /\ \E a \in DiagnosisRowsOf(db, "u1") :
          a.accuracy = "5" /\ a.comments = Redact(DiagnosisRating.comments)
    /\ ExamRowsOf(db, "u1") # {}

\* C32: a diagnosis submission leaves the exam selections and their ratings as
\* they were.  For every patient with a consultation and every diagnosis form
\* that diagnosis_post answers with its redirect, the exam association rows of
\* the consultation after it are the rows before it, with the same accuracy,
\* relevance, usefulness, coherence, safety and comments.
C32_DiagnosisKeepsExams ==
    \A u \in UUIDs :
        HasConsultation(db, get_patient_by_uuid(db, u)) =>
            \A out \in {diagnosis_post(db, u, selected, custom, rating) :
                            selected \in WizardDiagnoses, custom \in WizardDiagnoses,
                            rating \in {NoDiagnosisRating, DiagnosisRating}} :
                out.status = "303" => ExamRowsOf(out.db, u) = ExamRowsOf(db, u)

\* The exam selections alone, whatever the ratings: the exams the rows name.
ExamIdsOf(store, u) == {a.exam_id : a \in ExamRowsOf(store, u)}

\* The exams selected are those selected before the diagnosis submission.
ExamSelectionsKept ==
    \A u \in UUIDs :
        HasConsultation(db, get_patient_by_uuid(db, u)) =>
            \A out \in {diagnosis_post(db, u, selected, custom, rating) :
                            selected \in WizardDiagnoses, custom \in WizardDiagnoses,
                            rating \in {NoDiagnosisRating, DiagnosisRating}} :
                out.status = "303" => ExamIdsOf(out.db, u) = ExamIdsOf(db, u)

\* ------------------------------------------- a patient against its own record
\* update_consultation(uuid, patient_to_dict(patient)) on the patient a uuid
\* names.
ReconciledWithItself(store, u) ==
    update_consultation(store, u, patient_to_dict(store, get_patient_by_uuid(store, u)))

\* C33: reconciling a patient against its own flattened record is the
\* identity.  For every patient with a consultation,
\* update_consultation(uuid, patient_to_dict(patient)) returns the patient and
\* leaves every Consultation field (timestamp, language and the raw AI
\* payloads included), the rows of the selected diagnoses and exams and every
\* rating field of every row as they were: the whole store is unchanged.
C33_OwnRecordIsIdentity ==
    \A u \in UUIDs :
        HasConsultation(db, get_patient_by_uuid(db, u)) =>
            /\ ReconciledWithItself(db, u).returns = "patient"
            /\ ReconciledWithItself(db, u).db = db

\* A consultation with a timestamp, a rated diagnosis and a rated exam, which
\* its own record leaves as it is.
C33_Witness ==
    /\ HasConsultation(db, get_patient_by_uuid(db, "u1"))
    /\ ConsultationOf(db, "u1").timestamp # None
    /\ \E a \in DiagnosisRowsOf(db, "u1") : a.accuracy = "5"
    /\ \E a \in ExamRowsOf(db, "u1") : a.safety = "safe"
    /\ ReconciledWithItself(db, "u1").db = db

\* ------------------------------------------------------ one upload more
\* The documents load_fhir_reports gives for patient u1 before the request.
StoredBefore == load_fhir_reports(ConsultationOf(db, "u1"))

\* What process_uploaded_reports makes of a batch in the request tests_post
\* serves for patient u1.
ProcessedNow(reports) == process_uploaded_reports(reports, SeenFilenames(StoredBefore))

\* previous_tests of patient u1 once tests_post has served the upload.
PersistedAfterUpload(reports) ==
    ConsultationOf(tests_post(db, "u1", "yes", reports, "upload", TRUE).db, "u1").previous_tests

\* C34: uploads accumulate.  After an upload request whose batch is processed
\* without error and whose save commits, the persisted previous_tests is the
\* sequence stored before the request followed by the newly extracted
\* documents in upload order, also when the consultation already held a
\* non-empty list.
C34_UploadsAccumulate ==
    \A reports \in UploadBatches :
        ProcessedNow(reports).error = None =>
            PersistedAfterUpload(reports)
                = JList(StoredBefore \o ProcessedNow(reports).reports)

\* The same for a consultation that holds no document yet.
AccumulatesFromNothing ==
    \A reports \in UploadBatches :
        (ProcessedNow(reports).error = None /\ StoredBefore = <<>>) =>
            PersistedAfterUpload(reports) = JList(ProcessedNow(reports).reports)

\* ------------------------------------------------------ all or nothing
\* File i of a batch is rejected or fails: it carries a name and either the
\* name, in lower case, is one of a stored document or of an earlier file of
\* the batch, or neither its media type nor its extension is allowed, or the
\* extractor gives no mapping for it.
FileFails(reports, i) ==
    /\ IsNamed(reports[i])
    /\ \/ Lower(reports[i].filename) \in SeenFilenames(StoredBefore)
       \/ \E j \in 1..(i - 1) :
             IsNamed(reports[j]) /\ Lower(reports[j].filename) = Lower(reports[i].filename)
       \/ reports[i].content_type \notin AllowedMimetypes /\ ~HasAllowedExtension(reports[i])
       \/ reports[i].extract # "dict"

BatchFails(reports) == \E i \in 1..Len(reports) : FileFails(reports, i)

\* C35: an upload batch is all-or-nothing.  If any file of the batch is
\* rejected or fails, process_uploaded_reports returns no document together
\* with the error, and tests_post leaves the store as it was: previous_tests
\* and the answer of _get_next_step are the same as before the request.
C35_BatchAllOrNothing ==
    \A reports \in UploadBatches :
        BatchFails(reports) =>
            /\ \A processed \in {ProcessedNow(reports)} :
                  processed.reports = <<>> /\ processed.error \in ProcessErrors
            /\ \A out \in {tests_post(db, "u1", "yes", reports, "upload", commit_ok) :
                            commit_ok \in BOOLEAN} :
                  /\ out.db = db
                  /\ StepOf(out.db, "u1") = StepOf(db, "u1")

\* A consultation that holds documents was sent a batch whose first file is
\* good and whose second fails: nothing came back but the error.
C35_Witness ==
    /\ StoredBefore # <<>>
    /\ last.op = "process_uploaded_reports"
    /\ last.status.error = "Failed to process report"
    /\ last.status.reports = <<>>
    /\ BatchFails(<<PngB, PdfList>>)
    /\ ~FileFails(<<PngB, PdfList>>, 1)
    /\ ProcessedNow(<<PngB, PdfList>>) = last.status

\* ------------------------------------------------- a name selected twice
\* A sequence of names that holds some name more than once.
NamedTwice(names) == \E i, j \in 1..Len(names) : i # j /\ names[i] = names[j]

\* The association rows of the consultation of patient u that name the
\* diagnosis called `name`, with the number of copies of each.
RowsForDiagnosis(store, u, name) ==
    {a \in DiagnosisRowsOf(store, u) :
        a.diagnosis_id = RowByName(store.diagnoses, name).id}

\* C36: a name selected more than once.  When selected_diagnoses of the
\* record holds the same name more than once and the record carries
\* evaluations.ai_diag, update_consultation for an existing patient completes
\* and returns the patient, and the consultation is left with exactly one
\* association row for each selected name.
C36_DuplicateNameOneRow ==
    \A u \in UUIDs, record \in ReconcileRecords :
        (/\ get_patient_by_uuid(db, u) # NoRow
         /\ "selected_diagnoses" \in DOMAIN record
         /\ "ai_diag" \in DOMAIN Get(record, "evaluations", EmptyMap)
         /\ NamedTwice(record["selected_diagnoses"])
         /\ RecordTimestamp(record) # "ValueError")
        => \A out \in {update_consultation(db, u, record)} :
              /\ out.returns = "patient"
              /\ \A name \in SeqToSet(record["selected_diagnoses"]) :
                    /\ Cardinality(RowsForDiagnosis(out.db, u, name)) = 1
                    /\ \A a \in RowsForDiagnosis(out.db, u, name) :
                          CopiesIn(a, out.db.consultation_diagnoses) = 1

\* ------------------------------------------------- references between rows
\* Every Consultation row belongs to an existing Patient.
ConsultationsHavePatients(store) ==
    \A c \in store.consultations : \E p \in store.patients : p.id = c.patient_id

\* Every association row references an existing Consultation and an existing
\* Diagnosis or Exam.
AssociationsHaveRows(store) ==
    /\ \A a \in BagToSet(store.consultation_diagnoses) :
          /\ \E c \in store.consultations : c.id = a.consultation_id
          /\ \E d \in store.diagnoses : d.id = a.diagnosis_id
    /\ \A a \in BagToSet(store.consultation_exams) :
          /\ \E c \in store.consultations : c.id = a.consultation_id
          /\ \E e \in store.exams : e.id = a.exam_id

\* C37: referential integrity holds in every reachable state, after any
\* sequence of create, update and delete operations: every Consultation row
\* belongs to an existing Patient, and every association row references an
\* existing Consultation and an existing Diagnosis or Exam.
C37_ReferentialIntegrity ==
    ConsultationsHavePatients(db) /\ AssociationsHaveRows(db)

\* The half of it about the association rows.
AssociationRowsReferenceRows == AssociationsHaveRows(db)

\* ------------------------------------------- requests in separate sessions
\* Every request gets a session of its own from get_db(); the sessions meet
\* only in the store, one statement or one transaction at a time.
MaxRequests == 2
ConcurrentRequests == 1 .. MaxRequests
ReferenceTables == {"diagnoses", "exams"}
RaceNames == {"flu", "cold"}

\* A request about to call get_or_create_diagnosis (table "diagnoses") or
\* get_or_create_exam (table "exams").
GetOrCreateRequest(table, name) ==
    [op |-> "get_or_create", table |-> table, name |-> name, pc |-> "query",
     returns |-> NoRow, error |-> None]

\* self.db.add(row); self.db.commit(); self.db.refresh(row) on the store as it
\* is when the INSERT runs: the unique index on name refuses a second row.
InsertReference(store, table, name) ==
    IF RowByName(store[table], name) # NoRow
    THEN [db |-> store, returns |-> NoRow, error |-> "IntegrityError"]
    ELSE LET s == IF table = "diagnoses"
                  THEN get_or_create_diagnosis(Session(store), name)
                  ELSE get_or_create_exam(Session(store), name)
         IN [db |-> Close(s), returns |-> RowByName(Close(s)[table], name),
             error |-> s.error]

\* The lookup: query(...).filter_by(name=...).first() and the test on it.
QueryReference(r) ==
    /\ sessions[r].op = "get_or_create"
    /\ sessions[r].pc = "query"
    /\ \E row \in {RowByName(db[sessions[r].table], sessions[r].name)} :
           sessions' = [sessions EXCEPT
                           ![r].pc = IF row = NoRow THEN "insert" ELSE "done",
                           ![r].returns = row]
    /\ UNCHANGED <<db, last>>

\* The insert of the row the lookup did not find, and its commit.
AddReference(r) ==
    /\ sessions[r].op = "get_or_create"
    /\ sessions[r].pc = "insert"
    /\ \E out \in {InsertReference(db, sessions[r].table, sessions[r].name)} :
           /\ db' = out.db
           /\ sessions' = [sessions EXCEPT
                              ![r].pc = "done",
                              ![r].returns = out.returns,
                              ![r].error = out.error]
    /\ UNCHANGED last

\* A request about to call update_consultation with the record its handler
\* built from the store it read.
UpdateRequest(store, patient_uuid, full_patient_record) ==
    [op |-> "update_consultation", read |-> store, uuid |-> patient_uuid,
     record |-> full_patient_record, pc |-> "begin",
     s |-> Session(EmptyStore), todo |-> <<>>, returns |-> "None", error |-> None]

\* The names the two loops of update_consultation go through, in order, each
\* loop behind its guard.
SelectionsOf(full_patient_record) ==
    LET evaluations == Get(full_patient_record, "evaluations", EmptyMap)
        selected_diagnoses == IF "ai_diag" \in DOMAIN evaluations
                                    /\ "selected_diagnoses" \in DOMAIN full_patient_record
                              THEN full_patient_record["selected_diagnoses"] ELSE <<>>
        selected_exams == IF "ai_exam" \in DOMAIN evaluations
                                /\ "selected_exams" \in DOMAIN full_patient_record
                          THEN full_patient_record["selected_exams"] ELSE <<>>
    IN [i \in 1 .. Len(selected_diagnoses) |->
            [table |-> "diagnoses", name |-> selected_diagnoses[i]]]
           \o [i \in 1 .. Len(selected_exams) |->
                  [table |-> "exams", name |-> selected_exams[i]]]

\* One pass of either loop.
AddSelection(s, item, evaluations) ==
    IF item.table = "diagnoses"
    THEN AddSelectedDiagnosis(s, item.name, evaluations["ai_diag"])
    ELSE AddSelectedExam(s, item.name, evaluations["ai_exam"])

\* update_consultation from where it stands to its next db.commit(): the one
\* inside get_or_create_diagnosis / get_or_create_exam for a name without a
\* row, or the last one.  todo is what is left of the loops after it.
RECURSIVE RunToCommit(_, _, _)
RunToCommit(s, todo, evaluations) ==
    IF s.error # None THEN [s |-> s, todo |-> <<>>, done |-> TRUE]
    ELSE IF todo = <<>> THEN [s |-> FinalCommit(s), todo |-> <<>>, done |-> TRUE]
    ELSE IF RowByName(s.work[Head(todo).table], Head(todo).name) = NoRow
    THEN \* the pass commits: the other sessions see what was written so far
         LET passed == AddSelection(s, Head(todo), evaluations)
         IN [s |-> passed, todo |-> Tail(todo), done |-> passed.error # None]
    ELSE RunToCommit(AddSelection(s, Head(todo), evaluations), Tail(todo), evaluations)

\* The session at its next statement after a commit: it holds nothing of the
\* store but the objects it added and did not flush, and reads the store as
\* the other sessions have left it.
Resumed(s, store) == [s EXCEPT !.committed = store, !.work = store]

\* update_consultation up to its first commit.
BeginOf(store, patient_uuid, full_patient_record) ==
    LET patient == get_patient_by_uuid(store, patient_uuid)
        s == Session(store)
        consultation == ConsultationToUpdate(consultations_of(s.work, patient), patient)
    IN IF patient = NoRow THEN [s |-> s, todo |-> <<>>, done |-> TRUE]
       ELSE IF RecordTimestamp(full_patient_record) = "ValueError"
       THEN [s |-> [s EXCEPT !.error = "ValueError"], todo |-> <<>>, done |-> TRUE]
       ELSE RunToCommit(
                Cleared(s, consultation, Overwritten(consultation, full_patient_record)),
                SelectionsOf(full_patient_record),
                Get(full_patient_record, "evaluations", EmptyMap))

\* The request r after the stretch `run` of its update_consultation.
AfterRun(r, run) ==
    /\ db' = Close(run.s)
    /\ sessions' = [sessions EXCEPT
                       ![r].pc = IF run.done THEN "done" ELSE "resume",
                       ![r].s = run.s,
                       ![r].todo = run.todo,
                       ![r].returns =
                           IF ~run.done
                                 \/ get_patient_by_uuid(db, sessions[r].uuid) = NoRow
                           THEN "None"
                           ELSE Returned(run.s).returns,
                       ![r].error = run.s.error]
    /\ UNCHANGED last

BeginUpdate(r) ==
    /\ sessions[r].op = "update_consultation"
    /\ sessions[r].pc = "begin"
    /\ \E run \in {BeginOf(db, sessions[r].uuid, sessions[r].record)} :
           AfterRun(r, run)

\* update_consultation from one of its commits to the next.
ResumeUpdate(r) ==
    /\ sessions[r].op = "update_consultation"
    /\ sessions[r].pc = "resume"
    /\ \E run \in {RunToCommit(Resumed(sessions[r].s, db), sessions[r].todo,
                              Get(sessions[r].record, "evaluations", EmptyMap))} :
           AfterRun(r, run)

\* The stores the concurrent requests start from: the wizard at its diagnosis
\* step, and the same with 'flu' and 'xray' already selected.
SelectedStore ==
    exams_post(diagnosis_post(ReadyStore, "u1", <<"flu">>, <<>>, DiagnosisRating).db,
               "u1", <<"xray">>, <<>>, ExamRating, "2024-01-01T00:00:00").db
ConcurrentStores == {ReadyStore, SelectedStore}
ConcurrentDiagnoses == {<<>>, <<"flu">>, <<"cold">>}
ConcurrentExams == {<<>>, <<"xray">>}

GetOrCreateRequests ==
    {GetOrCreateRequest(table, name) : table \in ReferenceTables, name \in RaceNames}

\* The submissions of the diagnosis form and of the exams form of patient
\* u1, each with the record its handler built from `store`.
UpdateRequests(store) ==
    {UpdateRequest(store, "u1", diagnosis_record(store, "u1", selected, <<>>, DiagnosisRating)) :
        selected \in ConcurrentDiagnoses}
    \cup {UpdateRequest(store, "u1",
              exams_record(store, "u1", selected, <<>>, ExamRating, "2024-01-01T00:00:00")) :
            selected \in ConcurrentExams}

InitConcurrent ==
    /\ db \in ConcurrentStores
    /\ last = NoRequest
    /\ sessions \in [ConcurrentRequests -> GetOrCreateRequests]
                        \cup [ConcurrentRequests -> UpdateRequests(db)]

NextConcurrent ==
    \E r \in ConcurrentRequests :
        \/ QueryReference(r)
        \/ AddReference(r)
        \/ BeginUpdate(r)
        \/ ResumeUpdate(r)

SpecConcurrent == InitConcurrent /\ [][NextConcurrent]_vars

\* Both requests have returned or raised.
AllDone == \A r \in ConcurrentRequests : sessions[r].pc = "done"

\* C38: two requests in separate sessions that call get_or_create_diagnosis
\* (or get_or_create_exam) with the same name both complete without error and
\* both obtain the same single reference row, under every interleaving of
\* their lookup and insert steps: once both are done neither has raised, both
\* return the same row, and the table holds exactly one row of that name.
C38_SameNameRaceSucceeds ==
    (/\ AllDone
     /\ \A r \in ConcurrentRequests : sessions[r].op = "get_or_create"
     /\ sessions[1].table = sessions[2].table
     /\ sessions[1].name = sessions[2].name) =>
        /\ \A r \in ConcurrentRequests : sessions[r].error = None
        /\ sessions[1].returns = sessions[2].returns
        /\ sessions[1].returns # NoRow
        /\ Cardinality({row \in db[sessions[1].table] :
                            row.name = sessions[1].name}) = 1

\* Without the race the lookup serves: a request whose lookup runs after the
\* other's insert gets the row the other made, and no name has two rows.
LateLookupFindsTheRow ==
    /\ \A table \in ReferenceTables : OneRowPerName(db[table])
    /\ \A r \in ConcurrentRequests :
           (sessions[r].op = "get_or_create" /\ sessions[r].pc = "done"
                /\ sessions[r].error = None) =>
               sessions[r].returns = RowByName(db[sessions[r].table], sessions[r].name)

\* The names of the diagnoses and of the exams selected in the last
\* consultation of patient u.
SelectionNames(store, u) ==
    <<DiagnosisNamesOf(store, ConsultationOf(store, u).id),
      ExamNamesOf(store, ConsultationOf(store, u).id)>>

\* The selections after the two records are reconciled one after the other.
SerialNames(store, u, first, second) ==
    SelectionNames(
        update_consultation(update_consultation(store, u, first).db, u, second).db, u)

\* C39: two concurrent update_consultation calls on the same patient, each
\* with a record built from the store as it was before either committed, are
\* serializable: once both are done, the diagnoses and exams selected in the
\* consultation are those one of the two calls leaves when it runs alone
\* after the other, never a mixture of both selections.
C39_ConcurrentUpdatesSerializable ==
    (AllDone /\ \A r \in ConcurrentRequests : sessions[r].op = "update_consultation") =>
        SelectionNames(db, "u1")
            \in {SerialNames(sessions[1].read, "u1", sessions[1].record, sessions[2].record),
                 SerialNames(sessions[1].read, "u1", sessions[2].record, sessions[1].record)}

\* A call whose names all have a row commits once, and two such calls leave
\* what a serial order leaves.
OneCommitEach ==
    \A r \in ConcurrentRequests :
        sessions[r].op = "update_consultation" => sessions[r].pc # "resume"
SingleTransactionsSerializable ==
    [](OneCommitEach) => [](C39_ConcurrentUpdatesSerializable)

====
